---- MODULE Spec2Model ----
(***************************************************************************)
(* Model of the VOID buy bot (src/src/telegram/buybot.ts): the signature   *)
(* poll loop, the dedup window, transaction classification, the buy/burn   *)
(* handlers and the Telegram delivery queue.                               *)
(*                                                                         *)
(* Units.  Token amounts (uiAmount, a float in the source) are integers in *)
(* units of 10^-4 token; the usd price is an integer number of cents per   *)
(* token; a usd value is amount * price, in units of 10^-6 usd.  The       *)
(* comparisons of the source are made on these exact integers.             *)
(***************************************************************************)
EXTENDS Integers, Sequences, FiniteSets, TLC

\* ------------------------------------------------------------------------
\* Bounds of the model
\* ------------------------------------------------------------------------
MaxSigs == 12        \* signatures that ever appear on the mint's stream

\* ------------------------------------------------------------------------
\* Program constants
\* ------------------------------------------------------------------------
MAX_PROCESSED == 2000
limit == 10
MIN_BUY_USD == 25
MIN_ARB_USD == 25
ARB_BALANCE_THRESHOLD == 500

Tok(n) == n * 10000                 \* n whole tokens, in amount units
Usd(n) == n * 1000000               \* n dollars, in usd-value units

\* tolerances of processTransaction, in amount units
SenderTolerance == Tok(1) \div 1000   \* 0.001 token
DustFloor == Tok(1) \div 100          \* 0.01 token

\* ------------------------------------------------------------------------
\* Addresses.  An owner is the base58 string of the source; the model keeps
\* a short name for it and its string length (the buy sweep reads .length).
\* ------------------------------------------------------------------------
VOID_MINT == "VOID"
POOL_ID == "POOL_ID"
METEORA_POOL_W_VOID == "6rE8Ej3a"
METEORA_POOL_P_VOID == "5jW3M4de"
POOLS == {POOL_ID, METEORA_POOL_W_VOID, METEORA_POOL_P_VOID}
INCINERATOR == "1nc1nerator"
DEAD_ADDRESS == "1111"
HELPER_WALLET == "CEJnLWLE"
NoOwner == "undefined"

OwnerLength(o) ==
    CASE o = INCINERATOR -> 43
      [] o = DEAD_ADDRESS -> 32
      [] o = "vault43" -> 43          \* a program-derived vault, 43 characters
      [] o = "wallet43" -> 43         \* an ordinary wallet whose key encodes to 43
      [] OTHER -> 44

\* ------------------------------------------------------------------------
\* Transactions.  preTokenBalances / postTokenBalances are sequences of
\* [accountIndex, owner, mint, amt]; logs are reduced to isBurnLog.
\* ------------------------------------------------------------------------
Bal(i, o, m, a) == [accountIndex |-> i, owner |-> o, mint |-> m, amt |-> a]

\* Array.prototype.find: the first of the indices `hits` that pass the test,
\* 0 if none does
FindIndex(hits) ==
    IF hits = {} THEN 0 ELSE CHOOSE i \in hits : \A j \in hits : i <= j

\* (x?.uiTokenAmount?.uiAmount ?? 0) for x = s.find(test), hits as above
AmountOfFirst(s, hits) ==
    LET k == FindIndex(hits) IN IF k = 0 THEN 0 ELSE s[k].amt

AmountAt(s, idx) ==
    AmountOfFirst(s, {i \in 1..Len(s) : s[i].accountIndex = idx})

Abs(x) == IF x < 0 THEN -x ELSE x

BurnCall(burner, amount) ==
    [fn |-> "handleBurn", who |-> burner, amount |-> amount, balance |-> 0]
BuyCall(buyer, amount, balance) ==
    [fn |-> "handleBuy", who |-> buyer, amount |-> amount, balance |-> balance]

\* ------------------------------------------------------------------------
\* processTransaction: the handler calls it makes, in order
\* ------------------------------------------------------------------------
\* 1.B  postBalances owned by the incinerator / dead address, tracked mint
deadTransfers(tx) ==
    LET IsDead(b) == b.owner \in {INCINERATOR, DEAD_ADDRESS} /\ b.mint = VOID_MINT
    IN SelectSeq(tx.post, IsDead)

\* who sent `gain` to the sink: owner of the first pre-balance of the tracked
\* mint whose loss is within 0.001 of gain, else "Unknown"
Burner(tx, gain) ==
    LET IsSender(p) ==
            /\ p.mint = VOID_MINT
            /\ Abs((p.amt - AmountAt(tx.post, p.accountIndex)) - gain) < SenderTolerance
        k == FindIndex({i \in 1..Len(tx.pre) : IsSender(tx.pre[i])})
    IN IF k # 0 /\ tx.pre[k].owner # NoOwner THEN tx.pre[k].owner ELSE "Unknown"

RECURSIVE SinkScan(_, _)
SinkScan(tx, dead) ==
    IF dead = <<>> THEN <<>>
    ELSE LET trans == Head(dead)
             gain == trans.amt - AmountAt(tx.pre, trans.accountIndex)
         IN IF gain > 0
            THEN <<BurnCall(Burner(tx, gain), gain)>>          \* return
            ELSE SinkScan(tx, Tail(dead))

\* 1.C  poolGain of the protocol-burn rule: first post / pre entry owned by
\* POOL_ID, whatever its mint
PoolGain(tx) ==
    LET OwnedByPool(s) == {i \in 1..Len(s) : s[i].owner = POOL_ID}
    IN AmountOfFirst(tx.post, OwnedByPool(tx.post))
           - AmountOfFirst(tx.pre, OwnedByPool(tx.pre))

\* if (poolGain < loss * 0.9)
NotAbsorbed(poolGain, loss) == poolGain * 10 < loss * 9

RECURSIVE LogScan(_, _)
LogScan(tx, rest) ==
    IF rest = <<>> THEN <<>>
    ELSE LET preBal == Head(rest)
             loss == preBal.amt - AmountAt(tx.post, preBal.accountIndex)
         IN IF preBal.mint # VOID_MINT THEN LogScan(tx, Tail(rest))
            ELSE IF loss > 0 /\ NotAbsorbed(PoolGain(tx), loss)
                 THEN <<BurnCall(preBal.owner, loss)>>         \* return
                 ELSE LogScan(tx, Tail(rest))

\* 2.  the buy sweep over postBalances
isPool(owner) ==
    owner \in POOLS \/ (owner # NoOwner /\ OwnerLength(owner) < 44)

\* a sweep that keeps the last pool-side loss instead of adding them up
RECURSIVE Sweep_Overwrite(_, _, _)
Sweep_Overwrite(tx, rest, acc) ==
    IF rest = <<>> THEN acc
    ELSE LET postBal == Head(rest)
             delta == postBal.amt - AmountAt(tx.pre, postBal.accountIndex)
             next ==
                 IF postBal.mint # VOID_MINT THEN acc
                 ELSE IF delta < 0
                      THEN IF isPool(postBal.owner)
                           THEN [acc EXCEPT !.totalBought = Abs(delta),
                                            !.isTrade = TRUE]
                           ELSE acc
                 ELSE IF delta > 0 /\ postBal.amt > acc.maxBuyerBalance
                      THEN [acc EXCEPT
                               !.maxBuyerBalance = postBal.amt,
                               !.buyer = IF postBal.owner # NoOwner
                                         THEN postBal.owner ELSE @]
                 ELSE acc
         IN Sweep_Overwrite(tx, Tail(rest), next)

RECURSIVE Sweep(_, _, _)
Sweep(tx, rest, acc) ==
    IF rest = <<>> THEN acc
    ELSE LET postBal == Head(rest)
             delta == postBal.amt - AmountAt(tx.pre, postBal.accountIndex)
             next ==
                 IF postBal.mint # VOID_MINT THEN acc
                 ELSE IF delta < 0
                      THEN IF isPool(postBal.owner)
                           THEN [acc EXCEPT !.totalBought = @ + Abs(delta),
                                            !.isTrade = TRUE]
                           ELSE acc
                 ELSE IF delta > 0 /\ postBal.amt > acc.maxBuyerBalance
                      THEN [acc EXCEPT
                               !.maxBuyerBalance = postBal.amt,
                               !.buyer = IF postBal.owner # NoOwner
                                         THEN postBal.owner ELSE @]
                 ELSE acc
         IN Sweep(tx, Tail(rest), next)

\* a dust floor that lets exactly 0.01 through
BuySweep_DustInclusive(tx) ==
    LET acc == Sweep(tx, tx.post,
                     [totalBought |-> 0, buyer |-> tx.feePayer,
                      maxBuyerBalance |-> 0, isTrade |-> FALSE])
    IN IF acc.isTrade /\ acc.totalBought >= DustFloor /\ acc.buyer # HELPER_WALLET
       THEN <<BuyCall(acc.buyer, acc.totalBought, acc.maxBuyerBalance)>>
       ELSE <<>>

BuySweep(tx) ==
    LET acc == Sweep(tx, tx.post,
                     [totalBought |-> 0, buyer |-> tx.feePayer,
                      maxBuyerBalance |-> 0, isTrade |-> FALSE])
    IN IF acc.isTrade /\ acc.totalBought > DustFloor /\ acc.buyer # HELPER_WALLET
       THEN <<BuyCall(acc.buyer, acc.totalBought, acc.maxBuyerBalance)>>
       ELSE <<>>

\* a processTransaction that goes on after a burn was handled
processTransaction_NoReturn(tx) ==
    SinkScan(tx, deadTransfers(tx))
        \o (IF tx.isBurnLog THEN LogScan(tx, tx.pre) ELSE <<>>)
        \o BuySweep(tx)

processTransaction(tx) ==
    LET sink == SinkScan(tx, deadTransfers(tx))
    IN IF sink # <<>> THEN sink
       ELSE LET burn == IF tx.isBurnLog THEN LogScan(tx, tx.pre) ELSE <<>>
            IN IF burn # <<>> THEN burn ELSE BuySweep(tx)

\* ------------------------------------------------------------------------
\* handleBurn / handleBuy: the notifications they enqueue (none or one).
\* price is getVoidPrice()'s result: [ok |-> FALSE] for null.
\* ------------------------------------------------------------------------
NullPrice == [ok |-> FALSE, usd |-> 0]
PriceOf(cents) == [ok |-> TRUE, usd |-> cents]

QueuedMessage(sig, photo, pin) == [sig |-> sig, photo |-> photo, pin |-> pin]

\* a handleBurn that posts without a price
handleBurn_NoPriceCheck(sig, call, price) ==
    <<QueuedMessage(sig, "BURN_IMAGE_URL", TRUE)>>

handleBurn(sig, call, price) ==
    IF ~price.ok THEN <<>>
    ELSE <<QueuedMessage(sig, "BURN_IMAGE_URL", TRUE)>>

\* thresholds compared with <= instead of <
BelowMinimum_Inclusive(usdValue, isArbitrage) ==
    \/ isArbitrage /\ usdValue <= Usd(MIN_ARB_USD)
    \/ ~isArbitrage /\ usdValue <= Usd(MIN_BUY_USD)

BelowMinimum(usdValue, isArbitrage) ==
    \/ isArbitrage /\ usdValue < Usd(MIN_ARB_USD)
    \/ ~isArbitrage /\ usdValue < Usd(MIN_BUY_USD)

handleBuy(sig, call, price) ==
    IF ~price.ok THEN <<>>
    ELSE LET usdValue == call.amount * price.usd
             isArbitrage == call.balance < Tok(ARB_BALANCE_THRESHOLD)
         IN IF BelowMinimum(usdValue, isArbitrage) THEN <<>>
            ELSE <<QueuedMessage(sig,
                                 IF isArbitrage THEN "ARB_IMAGE_URL" ELSE "rank",
                                 FALSE)>>

Handle(sig, call, price) ==
    IF call.fn = "handleBurn" THEN handleBurn(sig, call, price)
    ELSE handleBuy(sig, call, price)

\* ------------------------------------------------------------------------
\* The ledger: the transactions on the mint's signature stream.  Signatures
\* are 1, 2, 3, ... in ledger order; `head` of them exist so far.
\* ------------------------------------------------------------------------
TxBuy ==          \* the pool pays 1000 VOID out to a wallet that held 200
    [pre |-> <<Bal(1, POOL_ID, VOID_MINT, Tok(5000)), Bal(2, "walletA", VOID_MINT, Tok(200))>>,
     post |-> <<Bal(1, POOL_ID, VOID_MINT, Tok(4000)), Bal(2, "walletA", VOID_MINT, Tok(1200))>>,
     isBurnLog |-> FALSE, feePayer |-> "walletA"]
TxTransfer ==     \* wallet to wallet, no pool involved
    [pre |-> <<Bal(1, "walletA", VOID_MINT, Tok(50)), Bal(2, "walletB", VOID_MINT, 0)>>,
     post |-> <<Bal(1, "walletA", VOID_MINT, Tok(45)), Bal(2, "walletB", VOID_MINT, Tok(5))>>,
     isBurnLog |-> FALSE, feePayer |-> "walletA"]
TxBurnSink ==     \* a wallet sends 100 VOID to the incinerator
    [pre |-> <<Bal(1, "walletB", VOID_MINT, Tok(100)), Bal(2, INCINERATOR, VOID_MINT, 0)>>,
     post |-> <<Bal(1, "walletB", VOID_MINT, 0), Bal(2, INCINERATOR, VOID_MINT, Tok(100))>>,
     isBurnLog |-> FALSE, feePayer |-> "walletB"]
TxSmallBuy ==     \* the pool pays 10 VOID out: below the usd minimum
    [pre |-> <<Bal(1, POOL_ID, VOID_MINT, Tok(5000)), Bal(2, "walletB", VOID_MINT, 0)>>,
     post |-> <<Bal(1, POOL_ID, VOID_MINT, Tok(4990)), Bal(2, "walletB", VOID_MINT, Tok(10))>>,
     isBurnLog |-> FALSE, feePayer |-> "walletB"]

LedgerCycle == <<TxBuy, TxTransfer, TxBuy, TxBurnSink, TxTransfer, TxSmallBuy>>
LedgerTx(sig) == LedgerCycle[((sig - 1) % Len(LedgerCycle)) + 1]
\* sigInfo.err: the third transaction of every cycle failed on chain
LedgerErr(sig) == (sig % Len(LedgerCycle)) = 3

LedgerPrice == PriceOf(100)         \* 1.00 usd per VOID

\* ------------------------------------------------------------------------
\* State
\* ------------------------------------------------------------------------
VARIABLES
    head,           \* number of signatures on the stream
    lastSignature,  \* the cursor; 0 is undefined
    processedTxs,   \* the dedup Set, as its insertion-ordered sequence
    pollPc,         \* where the poll loop stands
    page,           \* signatures of the current page still to be looked at
    cur,            \* signature processTransaction is working on, 0 if none
    tx,             \* the transaction record getParsedTransaction returned for cur
    calls,          \* history: the handler calls processTransaction made for tx
    pending,        \* those of calls that still await getVoidPrice
    price,          \* history: what the last getVoidPrice() returned
    obs,            \* history: the last markProcessed call, [sig, ret]
    accepted,       \* history: signatures markProcessed returned true for, in order
    passed,         \* history: signatures handed to processTransaction, in order
    completed,      \* history: number of processTransaction calls that settled
    enqueued,       \* history: signatures of the messages enqueued, in order
    startHead,      \* history: signatures on the stream when the cursor was seeded
    messageQueue,   \* the notification queue
    isSending,      \* the busy flag
    sendPc,         \* where the delivery of curMsg stands
    curMsg,         \* the message shifted off the queue last
    att,            \* history of curMsg's delivery: outcomes and channel count
    queueTimer,     \* ms the pending drain timer was armed with, 0 when none is pending
    inFlight,       \* history: Telegram calls (send or pin) issued and not yet settled
    attempted,      \* history: signatures of the messages shifted off the queue, in order
    entry,          \* the file node was started on: "direct" (buybot) or "main" (main.ts)
    loopPc,         \* per startBuyBot call, where its poll loop stands
    backoff,        \* the module's backoff, ms
    delay,          \* history: the delay of the last setTimeout(pollLoop, delay), ms
    elapsed,        \* history: Date.now() - start of the cycle that ended last, ms
    lastOutcome,    \* history: how the pollForSwaps of that cycle ended
    now,            \* Date.now(), ms
    cachedPrice,    \* the price snapshot, NoCache for null
    priceCall,      \* per caller, its getVoidPrice call in flight
    priceRet,       \* history: per caller, what its last getVoidPrice call returned
    balances,       \* two balances handed to getVoidRank, in tenths of a token
    ranks,          \* what getVoidRank returned for them, "none" before the call
    supplies,       \* two supplies handed to calculateInterval, in SupplyUnit
    intervals,      \* what calculateInterval returned for them (s), 0 before the call
    stateFile,      \* state.json of the burn bot
    burnPc,         \* per tick of the burn bot, where it stands
    burnLocal,      \* per tick, claimVoid's locals: state, now, interval
    lastRemoval,    \* history: the last liquidity removal sent: by, at, until (s), confirmed
    dryRun          \* process.argv.includes("--dry-run")

vars == <<head, lastSignature, processedTxs, pollPc, page, cur, tx, calls, pending,
          price, obs, accepted, passed, completed, enqueued, startHead,
          messageQueue, isSending, sendPc, curMsg, att, queueTimer, inFlight, attempted,
          entry, loopPc, backoff, delay, elapsed, lastOutcome,
          now, cachedPrice, priceCall, priceRet,
          balances, ranks, supplies, intervals, stateFile, burnPc, burnLocal, lastRemoval,
          dryRun>>
cadenceVars == <<entry, loopPc, backoff, delay, elapsed, lastOutcome>>
timerVars == <<entry, loopPc, backoff, delay, elapsed>>
cacheVars == <<now, cachedPrice, priceCall, priceRet>>
rankVars == <<balances, ranks>>
intervalVars == <<supplies, intervals>>
burnVars == <<stateFile, burnPc, burnLocal, lastRemoval, dryRun>>
sideVars == <<rankVars, intervalVars, burnVars>>
pollVars == <<lastSignature, processedTxs, pollPc, page, cur, tx, calls, pending,
              price, obs, accepted, passed, completed, enqueued, startHead,
              cadenceVars, cacheVars, sideVars>>
queueVars == <<messageQueue, isSending, sendPc, curMsg, att, queueTimer, inFlight, attempted>>

NoTx == [pre |-> <<>>, post |-> <<>>, isBurnLog |-> FALSE, feePayer |-> "none"]
NoMsg == QueuedMessage(0, "none", FALSE)
NoAtt == [photo |-> "none", text |-> "none", pinCalls |-> 0, pinFailed |-> 0, sent |-> 0]

\* ------------------------------------------------------------------------
\* Dedup window
\* ------------------------------------------------------------------------
Has(set, sig) == \E i \in 1..Len(set) : set[i] = sig

\* a window that is emptied when it is full
markProcessed_ClearWhenFull(set, sig) ==
    IF Has(set, sig) THEN [ret |-> FALSE, set |-> set]
    ELSE [ret |-> TRUE,
          set |-> Append(IF Len(set) >= MAX_PROCESSED THEN <<>> ELSE set, sig)]

\* a window that evicts only once it exceeds its capacity
markProcessed_OffByOne(set, sig) ==
    IF Has(set, sig) THEN [ret |-> FALSE, set |-> set]
    ELSE [ret |-> TRUE,
          set |-> Append(IF Len(set) > MAX_PROCESSED THEN Tail(set) ELSE set, sig)]

\* markProcessed on window `set`: its return value and the window afterwards
markProcessed(set, sig) ==
    IF Has(set, sig) THEN [ret |-> FALSE, set |-> set]
    ELSE [ret |-> TRUE,
          set |-> Append(IF Len(set) >= MAX_PROCESSED THEN Tail(set) ELSE set, sig)]

\* ------------------------------------------------------------------------
\* Notification queue
\* ------------------------------------------------------------------------
\* setTimeout(() => { isSending = false; processQueue(); }, 2000)
QUEUE_DELAY_MS == 2000

\* a drain that starts whatever the busy flag says
processQueue_NoBusyFlag(q, sending, pc, msg, a) ==
    IF q = <<>>
    THEN [messageQueue |-> q, isSending |-> sending, sendPc |-> pc, curMsg |-> msg,
          att |-> a, started |-> FALSE]
    ELSE [messageQueue |-> Tail(q), isSending |-> TRUE, sendPc |-> "sendPhoto",
          curMsg |-> Head(q), att |-> NoAtt, started |-> TRUE]

\* a drain that takes the newest message instead of the oldest
processQueue_Lifo(q, sending, pc, msg, a) ==
    IF sending \/ q = <<>>
    THEN [messageQueue |-> q, isSending |-> sending, sendPc |-> pc, curMsg |-> msg,
          att |-> a, started |-> FALSE]
    ELSE [messageQueue |-> SubSeq(q, 1, Len(q) - 1), isSending |-> TRUE,
          sendPc |-> "sendPhoto", curMsg |-> q[Len(q)], att |-> NoAtt, started |-> TRUE]

\* processQueue() up to its first await, on queue q with busy flag `sending`;
\* started: it shifted a message and issued its sendPhoto
processQueue(q, sending, pc, msg, a) ==
    IF sending \/ q = <<>>
    THEN [messageQueue |-> q, isSending |-> sending, sendPc |-> pc, curMsg |-> msg,
          att |-> a, started |-> FALSE]
    ELSE [messageQueue |-> Tail(q), isSending |-> TRUE, sendPc |-> "sendPhoto",
          curMsg |-> Head(q), att |-> NoAtt, started |-> TRUE]

SetQueue(r) ==
    /\ messageQueue' = r.messageQueue
    /\ isSending' = r.isSending
    /\ sendPc' = r.sendPc
    /\ curMsg' = r.curMsg
    /\ att' = r.att
    /\ inFlight' = inFlight + (IF r.started THEN 1 ELSE 0)
    /\ attempted' = IF r.started THEN Append(attempted, r.curMsg.sig) ELSE attempted

\* enqueue(msg) for each message of msgs (none or one per handler call)
enqueue(msgs) ==
    IF msgs = <<>> THEN UNCHANGED queueVars
    ELSE /\ SetQueue(processQueue(messageQueue \o msgs, isSending, sendPc, curMsg, att))
         /\ UNCHANGED queueTimer

\* the finally-less tail of processQueue: setTimeout(..., 2000); the call
\* that settled is no longer in flight
ArmQueueTimer ==
    /\ sendPc' = "timer"
    /\ queueTimer' = QUEUE_DELAY_MS
    /\ inFlight' = inFlight - 1

\* the call that settled is followed by the next call of the same delivery
NextCall(pc) ==
    /\ sendPc' = pc
    /\ UNCHANGED <<queueTimer, inFlight>>

SendPhotoDone(ok) ==
    /\ sendPc = "sendPhoto"
    /\ IF ok
       THEN /\ att' = [att EXCEPT !.photo = "ok", !.sent = @ + 1]
            /\ IF curMsg.pin THEN NextCall("pinPhoto") ELSE ArmQueueTimer
       ELSE /\ att' = [att EXCEPT !.photo = "failed"]
            /\ NextCall("sendMessage")
    /\ UNCHANGED <<messageQueue, isSending, curMsg, attempted, head, pollVars>>

\* pinChatMessage after the photo: a rejection lands in the photo's catch
PinPhotoDone(ok) ==
    /\ sendPc = "pinPhoto"
    /\ IF ok
       THEN /\ att' = [att EXCEPT !.pinCalls = @ + 1]
            /\ ArmQueueTimer
       ELSE /\ att' = [att EXCEPT !.pinCalls = @ + 1, !.pinFailed = @ + 1]
            /\ NextCall("sendMessage")
    /\ UNCHANGED <<messageQueue, isSending, curMsg, attempted, head, pollVars>>

\* a fallback that puts the notification back on the queue when it fails
SendMessageDone_Requeue(ok) ==
    /\ sendPc = "sendMessage"
    /\ IF ok
       THEN /\ att' = [att EXCEPT !.text = "ok", !.sent = @ + 1]
            /\ IF curMsg.pin THEN NextCall("pinMessage") ELSE ArmQueueTimer
            /\ messageQueue' = messageQueue
       ELSE /\ att' = [att EXCEPT !.text = "failed"]
            /\ ArmQueueTimer
            /\ messageQueue' = Append(messageQueue, curMsg)
    /\ UNCHANGED <<isSending, curMsg, attempted, head, pollVars>>

\* a fallback that goes on to the next message at once when it fails
SendMessageDone_NoDelay(ok) ==
    /\ sendPc = "sendMessage"
    /\ IF ok
       THEN /\ att' = [att EXCEPT !.text = "ok", !.sent = @ + 1]
            /\ IF curMsg.pin THEN NextCall("pinMessage") ELSE ArmQueueTimer
            /\ UNCHANGED <<messageQueue, isSending, curMsg, attempted>>
       ELSE LET r == processQueue(messageQueue, FALSE, "idle", curMsg,
                                  [att EXCEPT !.text = "failed"])
            IN /\ messageQueue' = r.messageQueue
               /\ isSending' = r.isSending
               /\ sendPc' = r.sendPc
               /\ curMsg' = r.curMsg
               /\ att' = r.att
               /\ inFlight' = inFlight - 1 + (IF r.started THEN 1 ELSE 0)
               /\ attempted' = IF r.started THEN Append(attempted, r.curMsg.sig)
                               ELSE attempted
               /\ UNCHANGED queueTimer
    /\ UNCHANGED <<head, pollVars>>

\* a fallback whose failure leaves processQueue without arming the timer
SendMessageDone_NoTimer(ok) ==
    /\ sendPc = "sendMessage"
    /\ IF ok
       THEN /\ att' = [att EXCEPT !.text = "ok", !.sent = @ + 1]
            /\ IF curMsg.pin THEN NextCall("pinMessage") ELSE ArmQueueTimer
       ELSE /\ att' = [att EXCEPT !.text = "failed"]
            /\ sendPc' = "idle"
            /\ inFlight' = inFlight - 1
            /\ UNCHANGED queueTimer
    /\ UNCHANGED <<messageQueue, isSending, curMsg, attempted, head, pollVars>>

SendMessageDone(ok) ==
    /\ sendPc = "sendMessage"
    /\ IF ok
       THEN /\ att' = [att EXCEPT !.text = "ok", !.sent = @ + 1]
            /\ IF curMsg.pin THEN NextCall("pinMessage") ELSE ArmQueueTimer
       ELSE /\ att' = [att EXCEPT !.text = "failed"]
            /\ ArmQueueTimer
    /\ UNCHANGED <<messageQueue, isSending, curMsg, attempted, head, pollVars>>

PinMessageDone(ok) ==
    /\ sendPc = "pinMessage"
    /\ att' = [att EXCEPT !.pinCalls = @ + 1, !.pinFailed = @ + (IF ok THEN 0 ELSE 1)]
    /\ ArmQueueTimer
    /\ UNCHANGED <<messageQueue, isSending, curMsg, attempted, head, pollVars>>

\* the 2000 ms timer: isSending = false; processQueue()
QueueTimer ==
    /\ sendPc = "timer"
    /\ SetQueue(processQueue(messageQueue, FALSE, "idle", curMsg, att))
    /\ queueTimer' = 0
    /\ UNCHANGED <<head, pollVars>>

\* ------------------------------------------------------------------------
\* Poll loop
\* ------------------------------------------------------------------------
Min(a, b) == IF a < b THEN a ELSE b
Reverse(s) == [i \in 1..Len(s) |-> s[Len(s) + 1 - i]]

\* getSignaturesForAddress(mint, {limit, until}): the newest `lim` signatures
\* after `until`, newest first; until = 0 (undefined) gives the newest of all
getSignaturesForAddress(h, until, lim) ==
    [i \in 1..Min(lim, h - until) |-> h + 1 - i]

\* for (const sigInfo of sigs.reverse())
ProcessingOrder_NewestFirst(sigs) == sigs
ProcessingOrder(sigs) == Reverse(sigs)

\* the for loop of pollForSwaps from `rest` on, up to its next await:
\* marks signatures until one is fresh and not failed, which goes to
\* processTransaction (cur), or until the page is used up (cur = 0)
RECURSIVE ForLoop(_, _)
ForLoop(rest, st) ==
    IF rest = <<>> THEN [st EXCEPT !.page = <<>>, !.cur = 0]
    ELSE LET sig == Head(rest)
             m == markProcessed(st.set, sig)
             marked == [st EXCEPT !.set = m.set,
                                  !.obs = [sig |-> sig, ret |-> m.ret],
                                  !.accepted = IF m.ret THEN Append(@, sig) ELSE @]
         IN IF ~m.ret THEN ForLoop(Tail(rest), marked)
            ELSE IF LedgerErr(sig) THEN ForLoop(Tail(rest), marked)
            ELSE [marked EXCEPT !.page = Tail(rest), !.cur = sig,
                                !.passed = Append(@, sig)]

\* run the loop on; when the page is used up pollForSwaps returns and
\* pollLoop arms its timer
ContinueLoop(rest) ==
    LET r == ForLoop(rest, [set |-> processedTxs, obs |-> obs, accepted |-> accepted,
                            passed |-> passed, page |-> rest, cur |-> 0])
    IN /\ page' = r.page
       /\ processedTxs' = r.set
       /\ obs' = r.obs
       /\ accepted' = r.accepted
       /\ cur' = r.cur
       /\ passed' = r.passed
       /\ pollPc' = IF r.cur = 0 THEN "idle" ELSE "tx"
       /\ lastOutcome' = IF r.cur = 0 THEN "ok" ELSE lastOutcome

loopVars == <<page, processedTxs, obs, accepted, cur, passed, lastOutcome>>

NoObs == [sig |-> 0, ret |-> FALSE]

\* the module's let-initialisers of the poll cadence and the price cache
BACKOFF_START == 1000
NoCache == [ok |-> FALSE, usd |-> 0, ts |-> 0]
NoCall == [pc |-> "none", at |-> 0, cache |-> NoCache]
NoRet == [kind |-> "none", snap |-> NoCache, calledAt |-> 0, cache |-> NoCache,
          at |-> 0, fetches |-> 0]
PriceCallers == {"poll", "command"}

LoopQuiet ==
    /\ entry = "direct"
    /\ loopPc = <<"off", "off">>
    /\ backoff = BACKOFF_START
    /\ delay = 0
    /\ elapsed = 0
    /\ lastOutcome = "none"

CacheQuiet ==
    /\ now = 0
    /\ cachedPrice = NoCache
    /\ priceCall = [c \in PriceCallers |-> NoCall]
    /\ priceRet = [c \in PriceCallers |-> NoRet]

\* getVoidRank and calculateInterval not called, the burn bot not started
RankQuiet ==
    /\ balances = <<0, 0>>
    /\ ranks = <<"none", "none">>

IntervalQuiet ==
    /\ supplies = <<0, 0>>
    /\ intervals = <<0, 0>>

Ticks == {1, 2}
\* loadState() without a state.json
NoState == [nextVoidTime |-> 0, totalBurned |-> 0]
NoRemoval == [by |-> 0, at |-> 0, until |-> 0, confirmed |-> FALSE]
NoLocal == [state |-> NoState, now |-> 0, interval |-> 0, saved |-> FALSE]

BurnQuiet ==
    /\ stateFile = NoState
    /\ burnPc = [t \in Ticks |-> "off"]
    /\ burnLocal = [t \in Ticks |-> NoLocal]
    /\ lastRemoval = NoRemoval
    /\ dryRun = FALSE

SideQuiet == RankQuiet /\ IntervalQuiet /\ BurnQuiet

BotInit ==
    /\ head = 0
    /\ lastSignature = 0
    /\ processedTxs = <<>>
    /\ pollPc = "boot"
    /\ page = <<>>
    /\ cur = 0
    /\ tx = NoTx
    /\ calls = <<>>
    /\ pending = <<>>
    /\ price = NullPrice
    /\ obs = NoObs
    /\ accepted = <<>>
    /\ passed = <<>>
    /\ completed = 0
    /\ enqueued = <<>>
    /\ startHead = 0
    /\ messageQueue = <<>>
    /\ isSending = FALSE
    /\ sendPc = "idle"
    /\ curMsg = NoMsg
    /\ att = NoAtt
    /\ queueTimer = 0
    /\ inFlight = 0
    /\ attempted = <<>>

Init == BotInit /\ LoopQuiet /\ CacheQuiet /\ SideQuiet

\* a transaction on the mint lands on the ledger
Arrive ==
    /\ head < MaxSigs
    /\ head' = head + 1
    /\ UNCHANGED <<pollVars, queueVars>>

\* a startBuyBot that leaves the cursor undefined
startBuyBot_NoSeed ==
    /\ pollPc = "boot"
    /\ lastSignature' = 0
    /\ startHead' = head
    /\ pollPc' = "fetch"
    /\ UNCHANGED <<head, loopVars, tx, calls, pending, price, completed, enqueued,
                   queueVars, timerVars, cacheVars, sideVars>>

\* startBuyBot: seed the cursor with the newest signature, then pollLoop()
\* runs pollForSwaps up to its fetch
startBuyBot ==
    /\ pollPc = "boot"
    /\ lastSignature' = head
    /\ startHead' = head
    /\ pollPc' = "fetch"
    /\ UNCHANGED <<head, loopVars, tx, calls, pending, price, completed, enqueued,
                   queueVars, timerVars, cacheVars, sideVars>>

\* setTimeout(pollLoop, delay) fires: pollForSwaps up to its fetch
PollTimer ==
    /\ pollPc = "idle"
    /\ pollPc' = "fetch"
    /\ UNCHANGED <<head, lastSignature, loopVars, tx, calls, pending, price,
                   completed, enqueued, startHead, queueVars,
                   timerVars, cacheVars, sideVars>>

\* a request that moves the cursor to the newest signature also when it fails
FetchPage_AdvanceOnError(outcome) ==
    /\ pollPc = "fetch"
    /\ IF outcome = "ok"
       THEN LET sigs == getSignaturesForAddress(head, lastSignature, limit)
            IN IF sigs = <<>>
               THEN /\ pollPc' = "idle"
                    /\ lastOutcome' = "ok"
                    /\ UNCHANGED <<lastSignature, page, processedTxs, obs, accepted,
                                   cur, passed>>
               ELSE /\ lastSignature' = sigs[1]
                    /\ ContinueLoop(ProcessingOrder(sigs))
       ELSE /\ pollPc' = "idle"
            /\ lastOutcome' = outcome
            /\ lastSignature' = head
            /\ UNCHANGED <<page, processedTxs, obs, accepted, cur, passed>>
    /\ UNCHANGED <<head, tx, calls, pending, price, completed, enqueued, startHead,
                   queueVars, timerVars, cacheVars, sideVars>>

\* the signature-page request settles
FetchPage(outcome) ==
    /\ pollPc = "fetch"
    /\ IF outcome = "ok"
       THEN LET sigs == getSignaturesForAddress(head, lastSignature, limit)
            IN IF sigs = <<>>
               THEN /\ pollPc' = "idle"
                    /\ lastOutcome' = "ok"
                    /\ UNCHANGED <<lastSignature, page, processedTxs, obs, accepted,
                                   cur, passed>>
               ELSE /\ lastSignature' = sigs[1]
                    /\ ContinueLoop(ProcessingOrder(sigs))
       ELSE /\ pollPc' = "idle"        \* 429 or RPC error: thrown to pollLoop
            /\ lastOutcome' = outcome
            /\ UNCHANGED <<lastSignature, page, processedTxs, obs, accepted, cur, passed>>
    /\ UNCHANGED <<head, tx, calls, pending, price, completed, enqueued, startHead,
                   queueVars, timerVars, cacheVars, sideVars>>

\* processTransaction(cur) got record t (NoTx: none, or the lookup threw) and
\* ran up to its first handler's await, or to its end
Classified(t) ==
    LET made == IF t = NoTx THEN <<>> ELSE processTransaction(t)
    IN /\ tx' = t
       /\ calls' = made
       /\ pending' = made
       /\ IF made = <<>>
          THEN /\ completed' = completed + 1
               /\ ContinueLoop(page)
          ELSE /\ pollPc' = "price"
               /\ UNCHANGED <<completed, loopVars>>

\* a lookup failure that ends the page
TxFetched_AbortPage(outcome) ==
    /\ pollPc = "tx"
    /\ IF outcome = "ok"
       THEN Classified(LedgerTx(cur))
       ELSE /\ tx' = NoTx
            /\ calls' = <<>>
            /\ pending' = <<>>
            /\ completed' = completed + 1
            /\ page' = <<>>
            /\ cur' = 0
            /\ pollPc' = "idle"
            /\ lastOutcome' = "ok"
            /\ UNCHANGED <<processedTxs, obs, accepted, passed>>
    /\ UNCHANGED <<head, lastSignature, price, enqueued, startHead, queueVars,
                   timerVars, cacheVars, sideVars>>

\* getParsedTransaction(cur) settles and processTransaction classifies
TxFetched(outcome) ==
    /\ pollPc = "tx"
    /\ Classified(IF outcome = "ok" THEN LedgerTx(cur) ELSE NoTx)
    /\ UNCHANGED <<head, lastSignature, price, enqueued, startHead, queueVars,
                   timerVars, cacheVars, sideVars>>

\* getVoidPrice() settles inside handleBurn / handleBuy, which then enqueues
PriceFetched(quote) ==
    /\ pollPc = "price"
    /\ LET msgs == Handle(cur, Head(pending), quote)
       IN /\ enqueue(msgs)
          /\ enqueued' = enqueued \o [i \in 1..Len(msgs) |-> msgs[i].sig]
    /\ price' = quote
    /\ pending' = Tail(pending)
    /\ IF Tail(pending) = <<>>
       THEN /\ completed' = completed + 1
            /\ ContinueLoop(page)
       ELSE UNCHANGED <<completed, loopVars, pollPc>>
    /\ UNCHANGED <<head, lastSignature, tx, calls, startHead, timerVars, cacheVars, sideVars>>

Next ==
    \/ Arrive
    \/ startBuyBot
    \/ PollTimer
    \/ \E outcome \in {"ok", "429", "error"} : FetchPage(outcome)
    \/ \E outcome \in {"ok", "null", "throw"} : TxFetched(outcome)
    \/ \E quote \in {NullPrice, LedgerPrice} : PriceFetched(quote)
    \/ \E ok \in BOOLEAN : SendPhotoDone(ok)
    \/ \E ok \in BOOLEAN : PinPhotoDone(ok)
    \/ \E ok \in BOOLEAN : SendMessageDone(ok)
    \/ \E ok \in BOOLEAN : PinMessageDone(ok)
    \/ QueueTimer

Spec == Init /\ [][Next]_vars

\* ------------------------------------------------------------------------
\* The dedup window on its own: markProcessed driven by the signatures of
\* arbitrary pages, fresh ones in ledger order and old ones seen again.
\* The window starts empty, or as 1 .. MAX_PROCESSED - 1 were marked in order.
\* ------------------------------------------------------------------------
MaxExtra == 3        \* fresh signatures beyond the window's capacity

Upto(k) == [i \in 1..k |-> i]

\* signatures that pages may show again: the two oldest and the newest
Reseen == {1, 2, head}

DedupInit ==
    /\ head \in {0, MAX_PROCESSED - 1}
    /\ processedTxs = Upto(head)
    /\ accepted = Upto(head)
    /\ obs = IF head = 0 THEN NoObs ELSE [sig |-> head, ret |-> TRUE]
    /\ lastSignature = head
    /\ pollPc = "idle"
    /\ page = <<>>
    /\ cur = 0
    /\ tx = NoTx
    /\ calls = <<>>
    /\ pending = <<>>
    /\ price = NullPrice
    /\ passed = <<>>
    /\ completed = 0
    /\ enqueued = <<>>
    /\ startHead = 0
    /\ messageQueue = <<>>
    /\ isSending = FALSE
    /\ sendPc = "idle"
    /\ curMsg = NoMsg
    /\ att = NoAtt
    /\ queueTimer = 0
    /\ inFlight = 0
    /\ attempted = <<>>
    /\ LoopQuiet
    /\ CacheQuiet
    /\ SideQuiet

\* the loop of pollForSwaps calls markProcessed(sig)
Observe(sig) ==
    LET m == markProcessed(processedTxs, sig)
    IN /\ processedTxs' = m.set
       /\ obs' = [sig |-> sig, ret |-> m.ret]
       /\ accepted' = IF m.ret THEN Append(accepted, sig) ELSE accepted
       /\ UNCHANGED <<lastSignature, pollPc, page, cur, tx, calls, pending, price,
                      passed, completed, enqueued, startHead, queueVars,
                   cadenceVars, cacheVars, sideVars>>

\* a signature never seen before
ObserveFresh ==
    /\ head < MAX_PROCESSED + MaxExtra
    /\ head' = head + 1
    /\ Observe(head + 1)

\* a signature that was on an earlier page
ObserveAgain(sig) ==
    /\ sig \in 1..head
    /\ head' = head
    /\ Observe(sig)

DedupNext ==
    \/ ObserveFresh
    \/ \E sig \in Reseen : ObserveAgain(sig)

SpecDedup == DedupInit /\ [][DedupNext]_vars

\* ------------------------------------------------------------------------
\* Classification on its own: processTransaction and the handlers applied to
\* one transaction drawn from a bounded universe, as signature 1 of a page.
\* ------------------------------------------------------------------------
MaxAccounts == 2     \* token accounts of a generated transaction

\* the documented examples
TxArbTwoPools ==  \* two pools lose 50 and 30, one wallet gains 80
    [pre |-> <<Bal(1, POOL_ID, VOID_MINT, Tok(1000)),
               Bal(2, METEORA_POOL_W_VOID, VOID_MINT, Tok(1000)),
               Bal(3, "walletA", VOID_MINT, 0)>>,
     post |-> <<Bal(1, POOL_ID, VOID_MINT, Tok(950)),
                Bal(2, METEORA_POOL_W_VOID, VOID_MINT, Tok(970)),
                Bal(3, "walletA", VOID_MINT, Tok(80))>>,
     isBurnLog |-> FALSE, feePayer |-> "walletA"]
TxBurn10Of100 ==  \* burn marker, a wallet loses 100, the pool gains 10
    [pre |-> <<Bal(1, "walletA", VOID_MINT, Tok(100)), Bal(2, POOL_ID, VOID_MINT, Tok(500))>>,
     post |-> <<Bal(1, "walletA", VOID_MINT, 0), Bal(2, POOL_ID, VOID_MINT, Tok(510))>>,
     isBurnLog |-> TRUE, feePayer |-> "walletA"]
TxSell99Of100 ==  \* burn marker, a wallet loses 100, the pool gains 99
    [pre |-> <<Bal(1, "walletA", VOID_MINT, Tok(100)), Bal(2, POOL_ID, VOID_MINT, Tok(500))>>,
     post |-> <<Bal(1, "walletA", VOID_MINT, 0), Bal(2, POOL_ID, VOID_MINT, Tok(599))>>,
     isBurnLog |-> TRUE, feePayer |-> "walletA"]
TxBuy2499 ==      \* the pool pays out 24.99 VOID to a holder of 600
    [pre |-> <<Bal(1, POOL_ID, VOID_MINT, Tok(1000)), Bal(2, "walletB", VOID_MINT, Tok(600))>>,
     post |-> <<Bal(1, POOL_ID, VOID_MINT, Tok(1000) - 249900),
                Bal(2, "walletB", VOID_MINT, Tok(600) + 249900)>>,
     isBurnLog |-> FALSE, feePayer |-> "walletB"]
TxBuy2500 ==      \* the pool pays out 25.00 VOID to a holder of 600
    [pre |-> <<Bal(1, POOL_ID, VOID_MINT, Tok(1000)), Bal(2, "walletB", VOID_MINT, Tok(600))>>,
     post |-> <<Bal(1, POOL_ID, VOID_MINT, Tok(975)), Bal(2, "walletB", VOID_MINT, Tok(625))>>,
     isBurnLog |-> FALSE, feePayer |-> "walletB"]
TxVaultBuy ==     \* a 43-character vault pays out 300 VOID to a wallet
    [pre |-> <<Bal(1, "vault43", VOID_MINT, Tok(900)), Bal(2, "walletB", VOID_MINT, 0)>>,
     post |-> <<Bal(1, "vault43", VOID_MINT, Tok(600)), Bal(2, "walletB", VOID_MINT, Tok(300))>>,
     isBurnLog |-> FALSE, feePayer |-> "walletB"]

TxHelperBuy ==    \* the pool pays out 1000 VOID to the helper wallet
    [pre |-> <<Bal(1, POOL_ID, VOID_MINT, Tok(5000)), Bal(2, HELPER_WALLET, VOID_MINT, 0)>>,
     post |-> <<Bal(1, POOL_ID, VOID_MINT, Tok(4000)), Bal(2, HELPER_WALLET, VOID_MINT, Tok(1000))>>,
     isBurnLog |-> FALSE, feePayer |-> HELPER_WALLET]

TxBurnSinkNear == \* the sink gains 100, the sender loses 100.0009
    [pre |-> <<Bal(1, "walletB", VOID_MINT, Tok(100) + 9), Bal(2, INCINERATOR, VOID_MINT, 0)>>,
     post |-> <<Bal(1, "walletB", VOID_MINT, 0), Bal(2, INCINERATOR, VOID_MINT, Tok(100))>>,
     isBurnLog |-> FALSE, feePayer |-> "walletB"]
TxBurnSinkFar ==  \* the sink gains 100, the only loser loses 100.001
    [pre |-> <<Bal(1, "walletB", VOID_MINT, Tok(100) + 10), Bal(2, DEAD_ADDRESS, VOID_MINT, 0)>>,
     post |-> <<Bal(1, "walletB", VOID_MINT, 0), Bal(2, DEAD_ADDRESS, VOID_MINT, Tok(100))>>,
     isBurnLog |-> FALSE, feePayer |-> "walletB"]
TxDustBurn ==     \* walletA sends 0.0005 VOID to the incinerator; walletB only pays the fee
    [pre |-> <<Bal(1, "walletB", VOID_MINT, Tok(50)), Bal(2, "walletA", VOID_MINT, 5),
               Bal(3, INCINERATOR, VOID_MINT, 0)>>,
     post |-> <<Bal(1, "walletB", VOID_MINT, Tok(50)), Bal(2, "walletA", VOID_MINT, 0),
                Bal(3, INCINERATOR, VOID_MINT, 5)>>,
     isBurnLog |-> FALSE, feePayer |-> "walletB"]

TxDustBuy ==      \* the pool pays out exactly 0.01 VOID
    [pre |-> <<Bal(1, POOL_ID, VOID_MINT, Tok(1000)), Bal(2, "walletB", VOID_MINT, 0)>>,
     post |-> <<Bal(1, POOL_ID, VOID_MINT, Tok(1000) - 100), Bal(2, "walletB", VOID_MINT, 100)>>,
     isBurnLog |-> FALSE, feePayer |-> "walletB"]
TxBuyAboveDust == \* the pool pays out 0.0101 VOID
    [pre |-> <<Bal(1, POOL_ID, VOID_MINT, Tok(1000)), Bal(2, "walletB", VOID_MINT, 0)>>,
     post |-> <<Bal(1, POOL_ID, VOID_MINT, Tok(1000) - 101), Bal(2, "walletB", VOID_MINT, 101)>>,
     isBurnLog |-> FALSE, feePayer |-> "walletB"]

TxTieBuy ==       \* the pool pays out 100 VOID each to two empty wallets
    [pre |-> <<Bal(1, POOL_ID, VOID_MINT, Tok(1000)), Bal(2, "walletA", VOID_MINT, 0),
               Bal(3, "walletB", VOID_MINT, 0)>>,
     post |-> <<Bal(1, POOL_ID, VOID_MINT, Tok(800)), Bal(2, "walletA", VOID_MINT, Tok(100)),
                Bal(3, "walletB", VOID_MINT, Tok(100))>>,
     isBurnLog |-> FALSE, feePayer |-> "walletA"]
TxTieHelper ==    \* the pool pays out 100 VOID each to the helper wallet and to a wallet
    [pre |-> <<Bal(1, POOL_ID, VOID_MINT, Tok(1000)), Bal(2, HELPER_WALLET, VOID_MINT, 0),
               Bal(3, "walletB", VOID_MINT, 0)>>,
     post |-> <<Bal(1, POOL_ID, VOID_MINT, Tok(800)), Bal(2, HELPER_WALLET, VOID_MINT, Tok(100)),
                Bal(3, "walletB", VOID_MINT, Tok(100))>>,
     isBurnLog |-> FALSE, feePayer |-> HELPER_WALLET]

CatalogTxs == {TxBuy, TxTransfer, TxBurnSink, TxSmallBuy, TxArbTwoPools, TxBurn10Of100,
               TxSell99Of100, TxBuy2499, TxBuy2500, TxVaultBuy, TxHelperBuy,
               TxBurnSinkNear, TxBurnSinkFar, TxDustBurn, TxDustBuy, TxBuyAboveDust,
               TxTieBuy, TxTieHelper}

\* generated transactions: every sequence of at most MaxAccounts accounts
AmountLevels == {0, Tok(90), Tok(100)}
GenericOwners == {POOL_ID, METEORA_POOL_W_VOID, "walletA", INCINERATOR}
GenericAccounts ==
    {a \in [owner : GenericOwners, mint : {VOID_MINT}, pre : AmountLevels, post : AmountLevels] :
        a.pre # a.post \/ a.pre = Tok(100)}
    \cup [owner : {POOL_ID}, mint : {"SOL"}, pre : {0, Tok(100)}, post : {Tok(90), Tok(100)}]

TxOf(accounts, burnLog) ==
    [pre |-> [i \in 1..Len(accounts) |->
                 Bal(i, accounts[i].owner, accounts[i].mint, accounts[i].pre)],
     post |-> [i \in 1..Len(accounts) |->
                 Bal(i, accounts[i].owner, accounts[i].mint, accounts[i].post)],
     isBurnLog |-> burnLog, feePayer |-> "walletA"]

GenericTxs ==
    {TxOf(accounts, burnLog) :
        accounts \in UNION {[1..n -> GenericAccounts] : n \in 0..MaxAccounts},
        burnLog \in BOOLEAN}

TxUniverse == CatalogTxs \cup GenericTxs
Prices == {NullPrice, PriceOf(25), PriceOf(100)}

TxInit ==
    /\ tx \in TxUniverse
    /\ head = 1
    /\ lastSignature = 1
    /\ processedTxs = <<1>>
    /\ obs = [sig |-> 1, ret |-> TRUE]
    /\ accepted = <<1>>
    /\ passed = <<1>>
    /\ cur = 1
    /\ pollPc = "tx"
    /\ page = <<>>
    /\ calls = <<>>
    /\ pending = <<>>
    /\ price = NullPrice
    /\ completed = 0
    /\ enqueued = <<>>
    /\ startHead = 0
    /\ messageQueue = <<>>
    /\ isSending = FALSE
    /\ sendPc = "idle"
    /\ curMsg = NoMsg
    /\ att = NoAtt
    /\ queueTimer = 0
    /\ inFlight = 0
    /\ attempted = <<>>
    /\ LoopQuiet
    /\ CacheQuiet
    /\ SideQuiet

\* getParsedTransaction(cur) returns tx and processTransaction classifies it
ClassifyTx ==
    /\ pollPc = "tx"
    /\ Classified(tx)
    /\ UNCHANGED <<head, lastSignature, price, enqueued, startHead, queueVars,
                   timerVars, cacheVars, sideVars>>

TxNext ==
    \/ ClassifyTx
    \/ \E quote \in Prices : PriceFetched(quote)

SpecTx == TxInit /\ [][TxNext]_vars

\* ========================================================================
\* Properties
\* ========================================================================
StrictlyIncreasing(s) == \A i \in 1..(Len(s) - 1) : s[i] < s[i + 1]
QueueSigs == {messageQueue[i].sig : i \in 1..Len(messageQueue)}

\* C1: no on-chain event is lost.  Every later page request excludes the
\* cursor and everything older, so a signature at or below the cursor that
\* was not handed to processTransaction by the end of the cycle never will
\* be.  Stated at the end of each cycle: every non-failed signature after the
\* startup cursor and up to the cursor has been passed to processTransaction.
C1_NoEventLost ==
    pollPc = "idle" =>
        \A s \in (startHead + 1)..lastSignature : ~LedgerErr(s) => Has(passed, s)

\* C3: delivery fallback.  Photo failed and text sent: exactly one message
\* of the notification reached the channel.  Both failed: none did, nothing
\* more is sent for it and it is not back in the queue; once the timer
\* fires the drain takes the next queued item.
C3_Fallback_State ==
    /\ (att.photo = "failed" /\ att.text = "ok") => att.sent = 1
    /\ (att.photo = "failed" /\ att.text = "failed") =>
           /\ att.sent = 0
           /\ sendPc \in {"timer", "idle"}
    /\ curMsg.sig \notin QueueSigs
    /\ StrictlyIncreasing([i \in 1..Len(messageQueue) |-> messageQueue[i].sig])

C3_Fallback_Step ==
    (sendPc = "timer" /\ sendPc' # "timer") =>
        IF messageQueue = <<>> THEN sendPc' = "idle" /\ ~isSending'
        ELSE /\ curMsg' = Head(messageQueue)
             /\ messageQueue' = Tail(messageQueue)
             /\ sendPc' = "sendPhoto"

C3_DeliveryFallback == [](C3_Fallback_State) /\ [][C3_Fallback_Step]_vars

C3_Witness ==
    /\ att.photo = "failed"
    /\ att.text = "failed"
    /\ att.sent = 0
    /\ sendPc = "timer"
    /\ messageQueue # <<>>

\* C4: pinning is best-effort.  Once the photo of a pin-flagged notification
\* was sent, a failing pin call leaves it at that one message and that one
\* pin call.
C4_PinBestEffort ==
    (curMsg.pin /\ att.photo = "ok") => (att.sent = 1 /\ att.pinCalls <= 1)

PostGain(t, i) == t.post[i].amt - AmountAt(t.pre, t.post[i].accountIndex)
PreLoss(t, i) == t.pre[i].amt - AmountAt(t.post, t.pre[i].accountIndex)

\* burn-sink balances of the tracked mint that grew
SinkGains(t) ==
    {i \in DOMAIN t.post :
        /\ t.post[i].owner \in {INCINERATOR, DEAD_ADDRESS}
        /\ t.post[i].mint = VOID_MINT
        /\ PostGain(t, i) > 0}

\* tracked-mint accounts whose balance fell
Losers(t) == {i \in DOMAIN t.pre : t.pre[i].mint = VOID_MINT /\ PreLoss(t, i) > 0}

\* the tracked pool's balance change for the tracked mint
PoolVoidGain(t) ==
    LET PoolVoid(s) == {i \in 1..Len(s) : s[i].owner = POOL_ID /\ s[i].mint = VOID_MINT}
    IN AmountOfFirst(t.post, PoolVoid(t.post)) - AmountOfFirst(t.pre, PoolVoid(t.pre))

\* the two burn rules as the code decides them
LogRuleMatches(t) ==
    t.isBurnLog /\ \E i \in Losers(t) : NotAbsorbed(PoolGain(t), PreLoss(t, i))
BurnMatched(t) == SinkGains(t) # {} \/ LogRuleMatches(t)

\* the pool side of the buy sweep
PoolSide(o) ==
    \/ o \in {POOL_ID, METEORA_POOL_W_VOID, METEORA_POOL_P_VOID}
    \/ (o # NoOwner /\ OwnerLength(o) < 44)
PoolLosers(t) ==
    {i \in DOMAIN t.post :
        t.post[i].mint = VOID_MINT /\ PostGain(t, i) < 0 /\ PoolSide(t.post[i].owner)}
RECURSIVE SumLoss(_, _)
SumLoss(t, S) ==
    IF S = {} THEN 0
    ELSE LET i == CHOOSE j \in S : TRUE IN SumLoss(t, S \ {i}) - PostGain(t, i)
Gainers(t) == {i \in DOMAIN t.post : t.post[i].mint = VOID_MINT /\ PostGain(t, i) > 0}
ExpectedBuyers(t) ==
    IF Gainers(t) = {} THEN {t.feePayer}
    ELSE {t.post[i].owner : i \in {g \in Gainers(t) :
                                     \A j \in Gainers(t) : t.post[j].amt <= t.post[g].amt}}

Count(s, x) == Cardinality({i \in 1..Len(s) : s[i] = x})
Max(a, b) == IF a > b THEN a ELSE b

\* C2 as stated: each distinct signature is accepted as unseen exactly once,
\* however often it reappears: no signature occurs twice among the accepted.
C2_AcceptedOnce == \A sig \in Reseen : Count(accepted, sig) <= 1

\* C2 amended: a signature is not accepted again while it is among the
\* MAX_PROCESSED most recently accepted ones.  The window is exactly those;
\* a reappearance is rejected when the signature is among them, and one that
\* is accepted again has MAX_PROCESSED other acceptances since its last.
C2_AcceptedOncePerWindow ==
    LET n == Len(accepted)
        recent == Max(1, n - MAX_PROCESSED + 1)..n
    IN /\ processedTxs = [i \in 1..(n - Max(0, n - MAX_PROCESSED)) |->
                             accepted[i + Max(0, n - MAX_PROCESSED)]]
       /\ (obs.sig # 0 /\ ~obs.ret) => \E i \in recent : accepted[i] = obs.sig
       /\ obs.ret =>
             /\ accepted[n] = obs.sig
             /\ \A i \in Max(1, n - MAX_PROCESSED)..(n - 1) : accepted[i] # obs.sig

C2_Witness ==
    /\ obs = [sig |-> 1, ret |-> FALSE]
    /\ Len(processedTxs) = MAX_PROCESSED
    /\ Count(accepted, 1) = 1

\* C6 as stated: with a burn marker and no burn-sink gain, an account of the
\* tracked mint that loses `loss` gives Burn(owner, loss) when the tracked
\* pool's gain of the tracked mint is below 0.9 * loss (the first such
\* account in balance order is the one reported); when the pool's gain is
\* at least 0.9 * loss for every losing account there is no Burn.
C6_BurnVersusSell ==
    (pollPc # "tx" /\ tx.isBurnLog /\ SinkGains(tx) = {}) =>
        LET burners == {i \in Losers(tx) : PoolVoidGain(tx) * 10 < PreLoss(tx, i) * 9}
        IN IF burners = {}
           THEN \A k \in DOMAIN calls : calls[k].fn # "handleBurn"
           ELSE \E i \in burners : calls = <<BurnCall(tx.pre[i].owner, PreLoss(tx, i))>>

C8_AtMostOneEvent ==
    /\ Len(calls) <= 1
    /\ Len(enqueued) <= 1
    /\ (pollPc # "tx" /\ BurnMatched(tx)) =>
           /\ Len(calls) = 1
           /\ calls[1].fn = "handleBurn"
           /\ SinkGains(tx) # {} =>
                 \E i \in SinkGains(tx) :
                     /\ \A j \in SinkGains(tx) : i <= j
                     /\ calls[1].amount = PostGain(tx, i)

C8_Witness ==
    /\ pollPc = "price"
    /\ SinkGains(tx) # {}
    /\ LogRuleMatches(tx)
    /\ SumLoss(tx, PoolLosers(tx)) > DustFloor
    /\ Len(calls) = 1
    /\ calls[1].fn = "handleBurn"

\* C9: a Buy worth less than the applicable minimum (MIN_ARB_USD when the
\* buyer's resulting balance is below ARB_BALANCE_THRESHOLD, else MIN_BUY_USD)
\* enqueues nothing; one worth the minimum or more enqueues exactly one
\* notification.
C9_ThresholdSuppression ==
    (pollPc = "idle" /\ calls # <<>> /\ calls[1].fn = "handleBuy" /\ price.ok) =>
        LET usdValue == calls[1].amount * price.usd
            minimum == IF calls[1].balance < Tok(ARB_BALANCE_THRESHOLD)
                       THEN Usd(MIN_ARB_USD) ELSE Usd(MIN_BUY_USD)
        IN IF usdValue < minimum
           THEN enqueued = <<>> /\ messageQueue = <<>> /\ ~isSending
           ELSE /\ enqueued = <<passed[1]>>
                /\ messageQueue = <<>>
                /\ isSending
                /\ curMsg.sig = passed[1]

C9_Witness ==
    /\ tx = TxBuy2500
    /\ price = PriceOf(100)
    /\ calls[1].amount * price.usd = Usd(MIN_BUY_USD)
    /\ enqueued = <<1>>

\* C10: FIFO eviction.  The window never holds more than MAX_PROCESSED
\* signatures; after MAX_PROCESSED + 1 distinct insertions the first is
\* unseen again and the MAX_PROCESSED most recent are still seen; a new
\* signature put into a full window evicts exactly the oldest-inserted one;
\* seeing a signature of the window again leaves the window as it is.
C10_Window_State ==
    /\ Len(processedTxs) <= MAX_PROCESSED
    /\ accepted = Upto(MAX_PROCESSED + 1) =>
          /\ markProcessed(processedTxs, 1).ret
          /\ \A sig \in 2..(MAX_PROCESSED + 1) : Has(processedTxs, sig)

C10_Window_Step ==
    /\ Has(processedTxs, obs'.sig) => (processedTxs' = processedTxs /\ ~obs'.ret)
    /\ (~Has(processedTxs, obs'.sig) /\ Len(processedTxs) = MAX_PROCESSED) =>
           (processedTxs' = Append(Tail(processedTxs), obs'.sig) /\ obs'.ret)

C10_FifoEviction == [](C10_Window_State) /\ [][C10_Window_Step]_vars

C10_Witness ==
    /\ obs = [sig |-> 1, ret |-> TRUE]
    /\ accepted = Append(Upto(MAX_PROCESSED + 1), 1)
    /\ processedTxs[1] = 3

\* C11: single active drain.  At most one Telegram call (photo send, text
\* fallback or pin) is in flight, and exactly while a delivery is under way;
\* the busy flag is up from the shift to the end of the post-delivery delay;
\* an enqueue made while it is up appends the message to the queue and
\* changes nothing else of the drain.
C11_Drain_State ==
    /\ inFlight <= 1
    /\ (inFlight = 1) <=> (sendPc \in {"sendPhoto", "pinPhoto", "sendMessage", "pinMessage"})
    /\ isSending <=> (sendPc # "idle")

C11_Drain_Step ==
    (isSending /\ enqueued' # enqueued) =>
        /\ Len(messageQueue') = Len(messageQueue) + 1
        /\ SubSeq(messageQueue', 1, Len(messageQueue)) = messageQueue
        /\ messageQueue'[Len(messageQueue')].sig = enqueued'[Len(enqueued')]
        /\ UNCHANGED <<isSending, sendPc, curMsg, att, inFlight, attempted, queueTimer>>

C11_SingleActiveDrain == [](C11_Drain_State) /\ [][C11_Drain_Step]_vars

C11_Witness ==
    /\ sendPc = "sendPhoto"
    /\ inFlight = 1
    /\ Len(attempted) = 1
    /\ messageQueue # <<>>

\* C12: strict FIFO delivery.  The notifications whose delivery was attempted
\* are, in order, the first ones enqueued, and the queue holds the rest in
\* enqueue order.
C12_StrictFifo ==
    /\ Len(attempted) <= Len(enqueued)
    /\ attempted = SubSeq(enqueued, 1, Len(attempted))
    /\ [i \in 1..Len(messageQueue) |-> messageQueue[i].sig]
           = SubSeq(enqueued, Len(attempted) + 1, Len(enqueued))

C12_Witness ==
    /\ Len(attempted) >= 2
    /\ Len(messageQueue) >= 2
    /\ sendPc = "sendMessage"

\* C19: inter-message delay.  When a delivery attempt has finished, however
\* it went, the QUEUE_DELAY_MS timer is pending and the busy flag still up;
\* a message is shifted off the queue only by that timer's callback, or by
\* an enqueue after the callback found the queue empty.
C19_Delay_State ==
    /\ queueTimer = (IF sendPc = "timer" THEN QUEUE_DELAY_MS ELSE 0)
    /\ (isSending /\ inFlight = 0) => sendPc = "timer"
    /\ (att.sent > 0 \/ att.text = "failed") =>
           sendPc \in {"timer", "idle", "pinPhoto", "pinMessage", "sendMessage"}

C19_Delay_Step ==
    /\ attempted' # attempted =>
           \/ sendPc = "idle"
           \/ sendPc = "timer" /\ queueTimer' = 0 /\ enqueued' = enqueued
    /\ (sendPc # "idle" /\ sendPc' = "idle") => sendPc = "timer"

C19_InterMessageDelay == [](C19_Delay_State) /\ [][C19_Delay_Step]_vars

C19_Witness ==
    /\ sendPc = "timer"
    /\ queueTimer = QUEUE_DELAY_MS
    /\ att.photo = "failed"
    /\ att.text = "ok"
    /\ messageQueue # <<>>
    /\ Len(attempted) >= 2

\* ------------------------------------------------------------------------
\* The poll cadence on its own: module load, startBuyBot and pollLoop, with
\* pollForSwaps reduced to how it ends for pollLoop: "ok" (it returned),
\* "429" (it threw an error whose text holds 429) or "error" (it threw
\* another error), after `elapsed` ms.  Loop 1 is the one the module starts
\* when it is loaded, loop 2 the one main.ts starts.
\* ------------------------------------------------------------------------
BASE_INTERVAL == 30000
BACKOFF_MAX == 60000
Loops == {1, 2}
CycleOutcomes == {"ok", "429", "error"}
ElapsedLevels == {0, 10000, 30000, 45000}

botVars == <<head, lastSignature, processedTxs, pollPc, page, cur, tx, calls, pending,
             price, obs, accepted, passed, completed, enqueued, startHead, queueVars>>

\* a backoff that a successful cycle leaves as it is
pollLoopBackoff_NoReset(b, out) ==
    IF out = "429" THEN Min(b * 2, BACKOFF_MAX) ELSE b

\* backoff after a cycle that ended with `out`
pollLoopBackoff(b, out) ==
    IF out = "ok" THEN 1000
    ELSE IF out = "429" THEN Min(b * 2, BACKOFF_MAX)
    ELSE b

\* a delay in which the backoff replaces the baseline wait
pollLoopDelay_BackoffOnly(b, e) ==
    IF b > 1000 THEN b ELSE Max(0, BASE_INTERVAL - e)

\* Math.max(0, BASE_INTERVAL - elapsed) + (backoff > 1000 ? backoff : 0)
pollLoopDelay(b, e) ==
    Max(0, BASE_INTERVAL - e) + (IF b > 1000 THEN b ELSE 0)

LoopInit ==
    /\ BotInit
    /\ CacheQuiet
    /\ SideQuiet
    /\ entry \in {"direct", "main"}
    /\ loopPc = <<"off", "off">>
    /\ backoff = BACKOFF_START
    /\ delay = 0
    /\ elapsed = 0
    /\ lastOutcome = "none"

\* the module's last statement: import.meta.url is the module's own URL and
\* always holds "buybot", so loading the module calls startBuyBot()
AutoRun ==
    /\ loopPc[1] = "off"
    /\ loopPc' = [loopPc EXCEPT ![1] = "seed"]
    /\ UNCHANGED <<entry, backoff, delay, elapsed, lastOutcome, botVars, cacheVars, sideVars>>

\* main.ts, after its imports were loaded: startAll() calls startBuyBot()
startAll ==
    /\ entry = "main"
    /\ loopPc[1] # "off"
    /\ loopPc[2] = "off"
    /\ loopPc' = [loopPc EXCEPT ![2] = "seed"]
    /\ UNCHANGED <<entry, backoff, delay, elapsed, lastOutcome, botVars, cacheVars, sideVars>>

\* startBuyBot's seed request settles: pollLoop() is called and issues its
\* pollForSwaps, or the rejection ends startBuyBot
SeedDone(l, ok) ==
    /\ loopPc[l] = "seed"
    /\ loopPc' = [loopPc EXCEPT ![l] = IF ok THEN "polling" ELSE "failed"]
    /\ UNCHANGED <<entry, backoff, delay, elapsed, lastOutcome, botVars, cacheVars, sideVars>>

\* a pollLoop that gives up on an error that is not a rate limit
pollLoop_Fatal(l, out, e) ==
    /\ loopPc[l] = "polling"
    /\ backoff' = pollLoopBackoff(backoff, out)
    /\ delay' = pollLoopDelay(backoff', e)
    /\ elapsed' = e
    /\ lastOutcome' = out
    /\ loopPc' = [loopPc EXCEPT ![l] = IF out = "error" THEN "failed" ELSE "waiting"]
    /\ UNCHANGED <<entry, botVars, cacheVars, sideVars>>

\* pollLoop after its await pollForSwaps(): backoff, delay, setTimeout
pollLoop(l, out, e) ==
    /\ loopPc[l] = "polling"
    /\ backoff' = pollLoopBackoff(backoff, out)
    /\ delay' = pollLoopDelay(backoff', e)
    /\ elapsed' = e
    /\ lastOutcome' = out
    /\ loopPc' = [loopPc EXCEPT ![l] = "waiting"]
    /\ UNCHANGED <<entry, botVars, cacheVars, sideVars>>

\* setTimeout(pollLoop, delay) fires: the next pollForSwaps is issued
pollLoopTimer(l) ==
    /\ loopPc[l] = "waiting"
    /\ loopPc' = [loopPc EXCEPT ![l] = "polling"]
    /\ UNCHANGED <<entry, backoff, delay, elapsed, lastOutcome, botVars, cacheVars, sideVars>>

LoopNext ==
    \/ AutoRun
    \/ startAll
    \/ \E l \in Loops, ok \in BOOLEAN : SeedDone(l, ok)
    \/ \E l \in Loops, out \in CycleOutcomes, e \in ElapsedLevels : pollLoop(l, out, e)
    \/ \E l \in Loops : pollLoopTimer(l)

SpecLoop == LoopInit /\ [][LoopNext]_vars

\* timers that were set do fire
SpecLoopFair == SpecLoop /\ \A l \in Loops : WF_vars(pollLoopTimer(l))

CycleEnds == \E l \in Loops : loopPc[l] = "polling" /\ loopPc'[l] # "polling"

\* C13: backoff evolution.  The backoff is 1000 ms until a cycle has ended
\* and always within 1000..60000 ms; a cycle ending with a 429 sets it to
\* min(2 * backoff, 60000), a successful one to 1000, and nothing but the
\* end of a cycle changes it.
C13_Backoff_State ==
    /\ backoff >= 1000
    /\ backoff <= 60000
    /\ lastOutcome \in {"none", "ok"} => backoff = 1000

C13_Backoff_Step ==
    IF CycleEnds
    THEN /\ lastOutcome' = "429" => backoff' = Min(2 * backoff, 60000)
         /\ lastOutcome' = "ok" => backoff' = 1000
    ELSE backoff' = backoff

C13_BackoffEvolution == [](C13_Backoff_State) /\ [][C13_Backoff_Step]_vars

C13_Witness ==
    /\ backoff = 60000
    /\ lastOutcome = "429"
    /\ loopPc[1] = "waiting"

\* C14: next-cycle scheduling.  The delay given to setTimeout at the end of
\* a cycle is max(0, 30000 - elapsed) after a successful cycle and
\* max(0, 30000 - elapsed) + backoff after a rate-limited one, and never
\* below max(0, 30000 - elapsed).
C14_NextCycleDelay ==
    lastOutcome # "none" =>
        LET baseline == Max(0, 30000 - elapsed)
        IN /\ delay >= baseline
           /\ lastOutcome = "ok" => delay = baseline
           /\ lastOutcome = "429" => delay = baseline + backoff

C14_Witness ==
    /\ lastOutcome = "429"
    /\ elapsed = 45000
    /\ backoff = 4000
    /\ delay = 4000

\* C15: no concurrent polls.  At most one pollForSwaps is in progress at any
\* moment.
C15_NoConcurrentPolls ==
    Cardinality({l \in Loops : loopPc[l] = "polling"}) <= 1

\* C16: the poll loop never stops once started.  However a cycle ends, its
\* pollLoop sets the timer of the next one and never leaves the loop, and a
\* timer that was set fires and starts the next pollForSwaps.
C16_Loop_Step ==
    \A l \in Loops :
        loopPc[l] \in {"polling", "waiting"} => loopPc'[l] \in {"polling", "waiting"}

C17_Skip_State ==
    \A i \in 1..Len(passed) :
        /\ Count(passed, passed[i]) = 1
        /\ Has(processedTxs, passed[i])

C17_Skip_Step ==
    (pollPc = "tx" /\ completed' = completed + 1 /\ tx' = NoTx) =>
        /\ Has(processedTxs', cur)
        /\ calls' = <<>>
        /\ enqueued' = enqueued
        /\ messageQueue' = messageQueue
        /\ attempted' = attempted
        /\ LET rest == {i \in 1..Len(page) :
                           ~Has(processedTxs, page[i]) /\ ~LedgerErr(page[i])}
           IN IF rest = {} THEN pollPc' = "idle" /\ passed' = passed
              ELSE /\ pollPc' = "tx"
                   /\ cur' = page[FindIndex(rest)]
                   /\ passed' = Append(passed, cur')

C17_LookupFailureSkips == [](C17_Skip_State) /\ [][C17_Skip_Step]_vars

C17_Witness ==
    /\ tx = NoTx
    /\ pollPc = "tx"
    /\ completed = 1
    /\ passed = <<1, 2>>
    /\ page # <<>>

\* C18: historical backlog is never replayed.  Once startBuyBot has seeded
\* the cursor, the cursor never points before the signature that was newest
\* at that moment, and no signature that was on the stream then is handed to
\* processTransaction or gets a notification.
C18_NoBacklogReplay ==
    /\ pollPc # "boot" => lastSignature >= startHead
    /\ \A i \in 1..Len(passed) : passed[i] > startHead
    /\ \A i \in 1..Len(enqueued) : enqueued[i] > startHead
    /\ \A i \in 1..Len(attempted) : attempted[i] > startHead

C18_Witness ==
    /\ startHead = 3
    /\ passed # <<>>
    /\ passed[1] = 4
    /\ enqueued = <<4>>

\* ------------------------------------------------------------------------
\* The price cache on its own: getVoidPrice called by the poll loop's
\* handlers and by the /price command, on a clock.  (Spec takes the result
\* of getVoidPrice as any quote or null.)
\* ------------------------------------------------------------------------
CACHE_MS == 30000
MaxClock == 70000    \* the clock stops here
TickLevels == {10000, 19999, 20000}

\* a cache that is still served at exactly CACHE_MS
CacheFresh_Inclusive(c, t) == c.ok /\ t - c.ts <= CACHE_MS

\* cachedPrice && Date.now() - cachedPrice.ts < 30_000
CacheFresh(c, t) == c.ok /\ t - c.ts < CACHE_MS

PriceInit ==
    /\ BotInit
    /\ LoopQuiet
    /\ SideQuiet
    /\ now = 0
    /\ cachedPrice = NoCache
    /\ priceCall = [c \in PriceCallers |-> NoCall]
    /\ priceRet = [c \in PriceCallers |-> NoRet]

Tick(d) ==
    /\ now + d <= MaxClock
    /\ now' = now + d
    /\ UNCHANGED <<cachedPrice, priceCall, priceRet, botVars, cadenceVars, sideVars>>

\* getVoidPrice() is called: it returns the snapshot, or issues its fetch
getVoidPrice(c) ==
    /\ priceCall[c].pc = "none"
    /\ IF CacheFresh(cachedPrice, now)
       THEN /\ priceRet' = [priceRet EXCEPT ![c] =
                               [kind |-> "cached", snap |-> cachedPrice, calledAt |-> now,
                                cache |-> cachedPrice, at |-> now, fetches |-> 0]]
            /\ UNCHANGED priceCall
       ELSE /\ priceCall' = [priceCall EXCEPT ![c] =
                                [pc |-> "fetch", at |-> now, cache |-> cachedPrice]]
            /\ UNCHANGED priceRet
    /\ UNCHANGED <<now, cachedPrice, botVars, cadenceVars, sideVars>>

\* the fetch settles: a quote is stored and returned, or null is returned
\* (no pair, no priceUsd, or an exception)
PriceResponse(c, quote) ==
    /\ priceCall[c].pc = "fetch"
    /\ priceCall' = [priceCall EXCEPT ![c] = NoCall]
    /\ IF quote.ok
       THEN LET fresh == [ok |-> TRUE, usd |-> quote.usd, ts |-> now]
            IN /\ cachedPrice' = fresh
               /\ priceRet' = [priceRet EXCEPT ![c] =
                                  [kind |-> "fresh", snap |-> fresh,
                                   calledAt |-> priceCall[c].at,
                                   cache |-> priceCall[c].cache, at |-> now, fetches |-> 1]]
       ELSE /\ UNCHANGED cachedPrice
            /\ priceRet' = [priceRet EXCEPT ![c] =
                               [kind |-> "null", snap |-> NoCache,
                                calledAt |-> priceCall[c].at,
                                cache |-> priceCall[c].cache, at |-> now, fetches |-> 1]]
    /\ UNCHANGED <<now, botVars, cadenceVars, sideVars>>

PriceNext ==
    \/ \E d \in TickLevels : Tick(d)
    \/ \E c \in PriceCallers : getVoidPrice(c)
    \/ \E c \in PriceCallers, quote \in {NullPrice, LedgerPrice} : PriceResponse(c, quote)

SpecPrice == PriceInit /\ [][PriceNext]_vars

\* C20: price cache freshness.  A getVoidPrice call made less than 30000 ms
\* after the snapshot it found was captured returns that snapshot at once,
\* with no fetch; a call that finds no snapshot or one captured 30000 ms or
\* more before issues exactly one fetch and returns the quote captured when
\* that fetch settled, or null, never the snapshot it found.
C20_PriceCacheFreshness ==
    \A c \in PriceCallers :
        LET r == priceRet[c]
        IN r.kind # "none" =>
              IF r.cache.ok /\ r.calledAt - r.cache.ts < 30000
              THEN /\ r.kind = "cached"
                   /\ r.snap = r.cache
                   /\ r.fetches = 0
                   /\ r.at = r.calledAt
              ELSE /\ r.fetches = 1
                   /\ r.kind \in {"fresh", "null"}
                   /\ r.kind = "fresh" => (r.snap.ok /\ r.snap.ts = r.at /\ r.at >= r.calledAt)

C20_Witness ==
    /\ priceRet["poll"].kind = "fresh"
    /\ priceRet["poll"].cache.ok
    /\ priceRet["poll"].calledAt - priceRet["poll"].cache.ts = 30000
    /\ priceRet["command"].kind = "cached"
    /\ priceRet["command"].calledAt - priceRet["command"].cache.ts = 29999

\* ------------------------------------------------------------------------
\* Price unavailable, lookups that never settle, classification details
\* ------------------------------------------------------------------------
\* C21: an unavailable price suppresses the notification and nothing else
\* fails.  When getVoidPrice gives null to handleBurn or handleBuy, nothing
\* is enqueued, the handler and processTransaction return, and the loop goes
\* on with the next unseen, non-failed signature of the page; when there is
\* none the cycle ends as a successful one, which resets the backoff.
C21_Unavailable_Step ==
    (pollPc = "price" /\ pending' # pending /\ ~price'.ok) =>
        /\ enqueued' = enqueued
        /\ messageQueue' = messageQueue
        /\ isSending' = isSending
        /\ completed' = completed + 1
        /\ LET rest == {i \in 1..Len(page) :
                           ~Has(processedTxs, page[i]) /\ ~LedgerErr(page[i])}
           IN IF rest = {}
              THEN /\ pollPc' = "idle"
                   /\ lastOutcome' = "ok"
                   /\ pollLoopBackoff(backoff, lastOutcome') = BACKOFF_START
                   /\ passed' = passed
              ELSE /\ pollPc' = "tx"
                   /\ cur' = page[FindIndex(rest)]
                   /\ passed' = Append(passed, cur')

C21_PriceUnavailable == [][C21_Unavailable_Step]_vars

C21_Witness ==
    /\ price = NullPrice
    /\ passed = <<1, 2, 4>>
    /\ completed = 3
    /\ calls # <<>>
    /\ calls[1].fn = "handleBurn"
    /\ enqueued = <<>>
    /\ pollPc = "idle"
    /\ lastOutcome = "ok"

\* Timers that were set do fire and startBuyBot is called; nothing bounds
\* the time a request takes: fetch, getParsedTransaction, sendPhoto,
\* sendMessage and pinChatMessage are awaited with no timeout or abort signal.
SpecFair ==
    /\ Spec
    /\ WF_vars(startBuyBot)
    /\ WF_vars(PollTimer)
    /\ WF_vars(QueueTimer)

\* C22: no operation blocks indefinitely.  A poll cycle that is waiting for
\* a request (signature page, transaction, price) comes to its end, after
\* which the timer starts the next one, and a delivery that is waiting for
\* a send or pin request reaches the timer that drains the next item, also
\* when a request never settles.
C22_NoOperationBlocks ==
    /\ (pollPc \in {"fetch", "tx", "price"}) ~> (pollPc = "idle")
    /\ (sendPc \in {"sendPhoto", "pinPhoto", "sendMessage", "pinMessage"}) ~> (sendPc = "timer")

\* ------------------------------------------------------------------------
\* getVoidRank on its own.  Balances are in tenths of a token, so that
\* balances between 0 and the lowest threshold exist; thresholds are whole
\* tokens.
\* ------------------------------------------------------------------------
Tenths(n) == n * 10

\* ordered from highest to lowest
VOID_RANKS ==
    <<[name |-> "VOID Ultimate", threshold |-> 2000000],
       [name |-> "VOID Omega", threshold |-> 1500000],
       [name |-> "VOID Absolute", threshold |-> 1000000],
       [name |-> "VOID Singularity", threshold |-> 900000],
       [name |-> "VOID Omnipotence", threshold |-> 850000],
       [name |-> "VOID Eternity", threshold |-> 800000],
       [name |-> "VOID Apotheosis", threshold |-> 750000],
       [name |-> "VOID Divine", threshold |-> 650000],
       [name |-> "VOID Celestial", threshold |-> 600000],
       [name |-> "VOID Exalted", threshold |-> 550000],
       [name |-> "VOID Transcendent", threshold |-> 500000],
       [name |-> "VOID Majesty", threshold |-> 450000],
       [name |-> "VOID Sovereign", threshold |-> 400000],
       [name |-> "VOID Monarch", threshold |-> 350000],
       [name |-> "VOID Admiral", threshold |-> 300000],
       [name |-> "VOID Warden", threshold |-> 250000],
       [name |-> "VOID Harbinger", threshold |-> 225000],
       [name |-> "VOID Evoker", threshold |-> 200000],
       [name |-> "VOID Emperor", threshold |-> 175000],
       [name |-> "VOID Guardian", threshold |-> 150000],
       [name |-> "VOID Berserker", threshold |-> 135000],
       [name |-> "VOID Juggernaut", threshold |-> 120000],
       [name |-> "VOID Lord", threshold |-> 100000],
       [name |-> "VOID Alchemist", threshold |-> 90000],
       [name |-> "VOID Clairvoyant", threshold |-> 85000],
       [name |-> "VOID Conjurer", threshold |-> 80000],
       [name |-> "VOID Archdruid", threshold |-> 70000],
       [name |-> "VOID Sorcerer", threshold |-> 50000],
       [name |-> "VOID Shaman", threshold |-> 45000],
       [name |-> "VOID Sage", threshold |-> 40000],
       [name |-> "VOID Warrior", threshold |-> 35000],
       [name |-> "VOID Enchanter", threshold |-> 30000],
       [name |-> "VOID Seer", threshold |-> 27500],
       [name |-> "VOID Necromancer", threshold |-> 25000],
       [name |-> "VOID Summoner", threshold |-> 22500],
       [name |-> "VOID Master", threshold |-> 20000],
       [name |-> "VOID Disciple", threshold |-> 15000],
       [name |-> "VOID Acolyte", threshold |-> 12500],
       [name |-> "VOID Expert", threshold |-> 10000],
       [name |-> "VOID Apprentice", threshold |-> 7500],
       [name |-> "VOID Rookie", threshold |-> 5000],
       [name |-> "VOID Learner", threshold |-> 2500],
       [name |-> "VOID Initiate", threshold |-> 1000],
       [name |-> "VOID Peasant", threshold |-> 1]>>

\* a getVoidRank whose fall-through is the first entry of the table
getVoidRank_DefaultFirst(balance) ==
    LET k == FindIndex({i \in 1..Len(VOID_RANKS) : balance >= Tenths(VOID_RANKS[i].threshold)})
    IN IF k # 0 THEN VOID_RANKS[k].name ELSE VOID_RANKS[1].name

\* for (const rank of VOID_RANKS) if (balance >= rank.threshold) return rank.name
getVoidRank(balance) ==
    LET k == FindIndex({i \in 1..Len(VOID_RANKS) : balance >= Tenths(VOID_RANKS[i].threshold)})
    IN IF k # 0 THEN VOID_RANKS[k].name ELSE "VOID Peasant"

\* VOID_RANKS.findIndex(r => r.name === rankName), from 1; 0 for -1
RankIndex(rankName) ==
    FindIndex({i \in 1..Len(VOID_RANKS) : VOID_RANKS[i].name = rankName})

\* every threshold, a tenth below and a tenth above it, zero and negatives
BalanceLevels ==
    UNION {{Tenths(VOID_RANKS[i].threshold) - 1, Tenths(VOID_RANKS[i].threshold),
            Tenths(VOID_RANKS[i].threshold) + 1} : i \in 1..Len(VOID_RANKS)}
        \cup {0, -1, -Tenths(1000)}

RankInit ==
    /\ BotInit
    /\ LoopQuiet
    /\ CacheQuiet
    /\ IntervalQuiet
    /\ BurnQuiet
    /\ balances \in BalanceLevels \X BalanceLevels
    /\ ranks = <<"none", "none">>

RankCall ==
    /\ ranks = <<"none", "none">>
    /\ ranks' = <<getVoidRank(balances[1]), getVoidRank(balances[2])>>
    /\ UNCHANGED <<balances, botVars, cadenceVars, cacheVars, intervalVars, burnVars>>

RankNext == RankCall

SpecRank == RankInit /\ [][RankNext]_vars

\* C23: rank monotonicity.  getVoidRank returns a name of the table; for
\* balances b1 < b2 the table index of getVoidRank(b2) is at most that of
\* getVoidRank(b1); a balance below every threshold, zero and negative
\* balances included, gets the last (lowest) entry of the table.
C23_RankMonotone ==
    ranks # <<"none", "none">> =>
        /\ \A k \in 1..2 :
              /\ RankIndex(ranks[k]) # 0
              /\ (\A i \in 1..Len(VOID_RANKS) : balances[k] < Tenths(VOID_RANKS[i].threshold))
                    => ranks[k] = VOID_RANKS[Len(VOID_RANKS)].name
        /\ balances[1] < balances[2] => RankIndex(ranks[2]) <= RankIndex(ranks[1])

C23_Witness ==
    /\ balances = <<-1, Tenths(1000000) - 1>>
    /\ ranks = <<"VOID Peasant", "VOID Singularity">>

\* ------------------------------------------------------------------------
\* calculateInterval on its own.  Supplies are in units of 10^13 raw units
\* (10000 whole tokens, a hundredth of a percent of the launch supply).
\* ------------------------------------------------------------------------
TOTAL_SUPPLY == 10000
BENCHMARK_SUPPLY == TOTAL_SUPPLY \div 100

\* bigint division: truncates toward zero
BigDiv(a, b) == IF a >= 0 THEN a \div b ELSE -((-a) \div b)

\* steps taken above their percentages only
calculateInterval_Exclusive(currentSupply) ==
    LET burned == TOTAL_SUPPLY - currentSupply
        totalEntropy == BigDiv(burned, BENCHMARK_SUPPLY)
        intervalHours ==
            12 + (IF totalEntropy > 5 THEN 6 ELSE 0)
               + (IF totalEntropy > 10 THEN 6 ELSE 0)
               + (IF totalEntropy > 15 THEN 6 ELSE 0)
               + (IF totalEntropy > 30 THEN 6 ELSE 0)
               + (IF totalEntropy > 50 THEN 12 ELSE 0)
    IN intervalHours * 3600

calculateInterval(currentSupply) ==
    LET burned == TOTAL_SUPPLY - currentSupply
        totalEntropy == BigDiv(burned, BENCHMARK_SUPPLY)
        intervalHours ==
            12 + (IF totalEntropy >= 5 THEN 6 ELSE 0)
               + (IF totalEntropy >= 10 THEN 6 ELSE 0)
               + (IF totalEntropy >= 15 THEN 6 ELSE 0)
               + (IF totalEntropy >= 30 THEN 6 ELSE 0)
               + (IF totalEntropy >= 50 THEN 12 ELSE 0)
    IN intervalHours * 3600

\* for every whole percent the first and the last supply of it, and two
\* supplies above the launch supply
SupplyLevels ==
    {TOTAL_SUPPLY - pc * BENCHMARK_SUPPLY : pc \in 0..100}
        \cup {TOTAL_SUPPLY - pc * BENCHMARK_SUPPLY - (BENCHMARK_SUPPLY - 1) : pc \in 0..99}
        \cup {TOTAL_SUPPLY + 1, TOTAL_SUPPLY + BENCHMARK_SUPPLY}

IntervalInit ==
    /\ BotInit
    /\ LoopQuiet
    /\ CacheQuiet
    /\ RankQuiet
    /\ BurnQuiet
    /\ supplies \in SupplyLevels \X SupplyLevels
    /\ intervals = <<0, 0>>

IntervalCall ==
    /\ intervals = <<0, 0>>
    /\ intervals' = <<calculateInterval(supplies[1]), calculateInterval(supplies[2])>>
    /\ UNCHANGED <<supplies, botVars, cadenceVars, cacheVars, rankVars, burnVars>>

IntervalNext == IntervalCall

SpecInterval == IntervalInit /\ [][IntervalNext]_vars

\* the documented table, hours for a whole percent burned
TableHours(pct) ==
    IF pct <= 4 THEN 12
    ELSE IF pct <= 9 THEN 18
    ELSE IF pct <= 14 THEN 24
    ELSE IF pct <= 29 THEN 30
    ELSE IF pct <= 49 THEN 36
    ELSE 48

\* C25: calculateInterval follows the documented table.  With pct the whole
\* percent of the launch supply burned, the interval is 12 h for 0-4, 18 h
\* for 5-9, 24 h for 10-14, 30 h for 15-29, 36 h for 30-49 and 48 h from 50
\* on, returned in seconds; of two supplies the one with more burned never
\* gets the shorter interval.
C25_IntervalTable ==
    intervals # <<0, 0>> =>
        /\ \A k \in 1..2 :
              LET burned == TOTAL_SUPPLY - supplies[k]
              IN burned >= 0 =>
                    intervals[k] = TableHours(burned \div BENCHMARK_SUPPLY) * 3600
        /\ supplies[1] >= supplies[2] => intervals[1] <= intervals[2]

C25_Witness ==
    /\ supplies = <<TOTAL_SUPPLY - 499, TOTAL_SUPPLY - 500>>
    /\ intervals = <<12 * 3600, 18 * 3600>>

\* ------------------------------------------------------------------------
\* The burn bot on its own: tick (index.ts) and claimVoid (burn.ts).  A tick
\* starts at start-up and whenever the interval timer fires, also while an
\* earlier one is still awaiting; the clock (now, ms) moves in steps of the
\* poll interval, which the environment sets (POLL_INTERVAL_MS, here six
\* hours).  burnLocal[t].saved is history: this cycle has written its
\* now + interval to state.json.
\* ------------------------------------------------------------------------
POLL_INTERVAL_MS == 21600000
RETRY_SECONDS == 60
MaxPolls == 2          \* poll intervals the clock runs for
BurnSupplies == {TOTAL_SUPPLY - 499, TOTAL_SUPPLY - 500}

BurnInit ==
    /\ BotInit
    /\ LoopQuiet
    /\ RankQuiet
    /\ IntervalQuiet
    /\ now = 0
    /\ cachedPrice = NoCache
    /\ priceCall = [c \in PriceCallers |-> NoCall]
    /\ priceRet = [c \in PriceCallers |-> NoRet]
    /\ stateFile = NoState
    /\ burnPc = [t \in Ticks |-> "off"]
    /\ burnLocal = [t \in Ticks |-> NoLocal]
    /\ lastRemoval = NoRemoval
    /\ dryRun \in BOOLEAN

burnRest == <<cachedPrice, priceCall, priceRet, dryRun, botVars, cadenceVars,
              rankVars, intervalVars>>

Elapse ==
    /\ now + POLL_INTERVAL_MS <= MaxPolls * POLL_INTERVAL_MS
    /\ now' = now + POLL_INTERVAL_MS
    /\ UNCHANGED <<stateFile, burnPc, burnLocal, lastRemoval, burnRest>>

\* tick() is called and awaits connection.getBalance
TickStart(t) ==
    /\ burnPc[t] = "off"
    /\ burnPc' = [burnPc EXCEPT ![t] = "balance"]
    /\ burnLocal' = [burnLocal EXCEPT ![t] = NoLocal]
    /\ UNCHANGED <<now, stateFile, lastRemoval, burnRest>>

\* getBalance settles; tick calls claimVoid, which loads the state, checks
\* the timer and awaits getCurrentSupply
BalanceDone(t, ok) ==
    /\ burnPc[t] = "balance"
    /\ LET state == stateFile
           nowSec == now \div 1000
       IN IF ok /\ ~(nowSec < state.nextVoidTime)
          THEN /\ burnPc' = [burnPc EXCEPT ![t] = "supply"]
               /\ burnLocal' = [burnLocal EXCEPT ![t] =
                                   [state |-> state, now |-> nowSec, interval |-> 0,
                                    saved |-> FALSE]]
          ELSE /\ burnPc' = [burnPc EXCEPT ![t] = "off"]
               /\ UNCHANGED burnLocal
    /\ UNCHANGED <<now, stateFile, lastRemoval, burnRest>>

\* a claimVoid that does not save the timer before it goes on
SupplyDone_NoSave(t, ok, currentSupply) ==
    /\ burnPc[t] = "supply"
    /\ IF ok
       THEN LET interval == calculateInterval(currentSupply)
                state == [burnLocal[t].state EXCEPT !.nextVoidTime = burnLocal[t].now + interval]
            IN /\ burnLocal' = [burnLocal EXCEPT ![t].state = state, ![t].interval = interval]
               /\ burnPc' = [burnPc EXCEPT ![t] = IF dryRun THEN "off" ELSE "pool"]
       ELSE /\ burnPc' = [burnPc EXCEPT ![t] = "off"]
            /\ UNCHANGED burnLocal
    /\ UNCHANGED <<now, stateFile, lastRemoval, burnRest>>

\* getCurrentSupply settles: interval, state.nextVoidTime = now + interval,
\* saveState(state); then the pool and position are loaded
SupplyDone(t, ok, currentSupply) ==
    /\ burnPc[t] = "supply"
    /\ IF ok
       THEN LET interval == calculateInterval(currentSupply)
                state == [burnLocal[t].state EXCEPT !.nextVoidTime = burnLocal[t].now + interval]
            IN /\ burnLocal' = [burnLocal EXCEPT ![t].state = state, ![t].interval = interval,
                                                 ![t].saved = TRUE]
               /\ stateFile' = state
               /\ burnPc' = [burnPc EXCEPT ![t] = IF dryRun THEN "off" ELSE "pool"]
       ELSE /\ burnPc' = [burnPc EXCEPT ![t] = "off"]      \* thrown to tick
            /\ UNCHANGED <<burnLocal, stateFile>>
    /\ UNCHANGED <<now, lastRemoval, burnRest>>

\* catch (err): state.nextVoidTime = now + 60; saveState(state); throw err
Catch(t) ==
    LET state == [burnLocal[t].state EXCEPT !.nextVoidTime = burnLocal[t].now + RETRY_SECONDS]
    IN /\ burnLocal' = [burnLocal EXCEPT ![t].state = state]
       /\ stateFile' = state
       /\ burnPc' = [burnPc EXCEPT ![t] = "off"]

\* execute({ sendAndConfirm: true }) sends the removal
Sent(t) ==
    lastRemoval' = [by |-> t, at |-> now \div 1000,
                    until |-> burnLocal[t].now + burnLocal[t].interval,
                    confirmed |-> FALSE]

\* pool, position and token account are read and the removal is built:
\* execute() sends it, or there is nothing to remove, or a read threw
PoolDone(t, out) ==
    /\ burnPc[t] = "pool"
    /\ IF out = "ok"
       THEN /\ Sent(t)
            /\ burnPc' = [burnPc EXCEPT ![t] = "removing"]
            /\ UNCHANGED <<burnLocal, stateFile>>
       ELSE IF out = "none"
            THEN /\ burnPc' = [burnPc EXCEPT ![t] = "off"]
                 /\ UNCHANGED <<burnLocal, stateFile, lastRemoval>>
            ELSE Catch(t) /\ UNCHANGED lastRemoval
    /\ UNCHANGED <<now, burnRest>>

\* the removal is confirmed; after 3 s the token account is read
RemoveDone(t, ok) ==
    /\ burnPc[t] = "removing"
    /\ IF ok
       THEN /\ burnPc' = [burnPc EXCEPT ![t] = "account"]
            /\ lastRemoval' = IF lastRemoval.by = t
                              THEN [lastRemoval EXCEPT !.confirmed = TRUE]
                              ELSE lastRemoval
            /\ UNCHANGED <<burnLocal, stateFile>>
       ELSE Catch(t) /\ UNCHANGED lastRemoval
    /\ UNCHANGED <<now, burnRest>>

\* getAccount settles: the VOID received is burned, or none was received
AccountDone(t, out) ==
    /\ burnPc[t] = "account"
    /\ IF out = "received"
       THEN /\ burnPc' = [burnPc EXCEPT ![t] = "burning"]     \* the burn is sent
            /\ UNCHANGED <<burnLocal, stateFile>>
       ELSE IF out = "nothing"
            THEN /\ burnPc' = [burnPc EXCEPT ![t] = "closing"]
                 /\ UNCHANGED <<burnLocal, stateFile>>
            ELSE Catch(t)
    /\ UNCHANGED <<now, lastRemoval, burnRest>>

\* the burn is confirmed: state.totalBurned grows, saveState(state)
BurnDone(t, ok) ==
    /\ burnPc[t] = "burning"
    /\ IF ok
       THEN LET state == [burnLocal[t].state EXCEPT !.totalBurned = @ + 1]
            IN /\ burnLocal' = [burnLocal EXCEPT ![t].state = state]
               /\ stateFile' = state
               /\ burnPc' = [burnPc EXCEPT ![t] = "closing"]
       ELSE Catch(t)
    /\ UNCHANGED <<now, lastRemoval, burnRest>>

\* the closing getBalance and getCurrentSupply settle
ClosingDone(t, ok) ==
    /\ burnPc[t] = "closing"
    /\ IF ok
       THEN /\ burnPc' = [burnPc EXCEPT ![t] = "off"]
            /\ UNCHANGED <<burnLocal, stateFile>>
       ELSE Catch(t)
    /\ UNCHANGED <<now, lastRemoval, burnRest>>

BurnNext ==
    \/ Elapse
    \/ \E t \in Ticks : TickStart(t)
    \/ \E t \in Ticks, ok \in BOOLEAN : BalanceDone(t, ok)
    \/ \E t \in Ticks, ok \in BOOLEAN, currentSupply \in BurnSupplies :
           SupplyDone(t, ok, currentSupply)
    \/ \E t \in Ticks, out \in {"ok", "none", "throw"} : PoolDone(t, out)
    \/ \E t \in Ticks, ok \in BOOLEAN : RemoveDone(t, ok)
    \/ \E t \in Ticks, out \in {"received", "nothing", "throw"} : AccountDone(t, out)
    \/ \E t \in Ticks, ok \in BOOLEAN : BurnDone(t, ok)
    \/ \E t \in Ticks, ok \in BOOLEAN : ClosingDone(t, ok)

SpecBurn == BurnInit /\ [][BurnNext]_vars

\* tick t sends a chain transaction (the removal or the burn) in this step
Sends(t) ==
    \/ burnPc[t] = "pool" /\ burnPc'[t] = "removing"
    \/ burnPc[t] = "account" /\ burnPc'[t] = "burning"

\* C24: checks-effects-interactions in the burn cycle.  A cycle that found
\* the burn due writes nextVoidTime = now + interval to state.json in the
\* step in which it learns the supply, and whenever it sends the liquidity
\* removal or the burn it has done so before.
C24_Cei_State ==
    \A t \in Ticks :
        burnPc[t] \in {"pool", "removing", "account", "burning", "closing"} =>
            /\ burnLocal[t].saved
            /\ ~dryRun

C24_Cei_Step ==
    \A t \in Ticks :
        /\ (burnPc[t] = "supply" /\ burnPc'[t] # "supply" /\ burnLocal'[t].interval # 0) =>
              /\ burnLocal[t].now >= burnLocal[t].state.nextVoidTime
              /\ burnLocal'[t].interval \in {12 * 3600, 18 * 3600}
              /\ stateFile'.nextVoidTime = burnLocal[t].now + burnLocal'[t].interval
        /\ Sends(t) =>
              /\ burnLocal[t].saved
              /\ burnLocal[t].state.nextVoidTime = burnLocal[t].now + burnLocal[t].interval
              /\ burnLocal[t].interval > 0

C26_MarkedAfterProcessing ==
    pollPc \in {"tx", "price"} => ~Has(processedTxs, cur)

\* the transaction without the pool's balance entries of other mints
WithoutPoolOtherMints(t) ==
    LET Keep(b) == ~(b.owner = POOL_ID /\ b.mint # VOID_MINT)
    IN [t EXCEPT !.pre = SelectSeq(t.pre, Keep), !.post = SelectSeq(t.post, Keep)]

IsBurn(made) == made # <<>> /\ made[1].fn = "handleBurn"

\* C27: in the protocol-burn rule only the tracked pool's balance of the
\* tracked mint counts: whether a transaction is classified as a Burn is the
\* same with and without the balance entries the pool owns for other mints.
C27_PoolGainOfTrackedMint ==
    (pollPc # "tx" /\ tx # NoTx) =>
        IsBurn(calls) = IsBurn(processTransaction(WithoutPoolOtherMints(tx)))

\* net change of the tracked mint over all pool-side accounts
NetPoolChange(t) ==
    -SumLoss(t, {i \in DOMAIN t.post : t.post[i].mint = VOID_MINT /\ PoolSide(t.post[i].owner)})

\* C28: a Buy needs a negative net change of the pools' holdings: when the
\* pool-side accounts gain in total at least as much of the tracked mint as
\* they lose, handleBuy is not called.
C28_NetPoolOutflow ==
    (pollPc # "tx" /\ tx # NoTx /\ NetPoolChange(tx) >= 0) =>
        \A k \in DOMAIN calls : calls[k].fn # "handleBuy"

\* tracked-mint accounts whose balance fell by an amount within 0.001 of gain
Senders(t, gain) ==
    {j \in Losers(t) : Abs(PreLoss(t, j) - gain) < SenderTolerance}

\* C29: burn-sink rule.  For the first incinerator / dead-address balance of
\* the tracked mint that grew, by gain, exactly one Burn of amount gain is
\* emitted, attributed to the owner of a tracked-mint account whose balance
\* fell by an amount within 0.001 of gain, or to "Unknown" when there is no
\* such account; sink entries that did not grow emit nothing.
C29_BurnSinkRule ==
    (pollPc # "tx" /\ tx # NoTx) =>
        IF SinkGains(tx) = {}
        THEN ~tx.isBurnLog => \A k \in DOMAIN calls : calls[k].fn # "handleBurn"
        ELSE LET gain == PostGain(tx, FindIndex(SinkGains(tx)))
             IN /\ Len(calls) = 1
                /\ calls[1].fn = "handleBurn"
                /\ calls[1].amount = gain
                /\ calls[1].who \in (IF Senders(tx, gain) = {} THEN {"Unknown"}
                                     ELSE {tx.pre[j].owner : j \in Senders(tx, gain)})

\* the buyer of the notification: the owner of the gaining account with the
\* largest resulting balance (the first of them in balance order), the fee
\* payer when no account gains
AttributedBuyer(t) ==
    IF Gainers(t) = {} THEN t.feePayer
    ELSE t.post[FindIndex({g \in Gainers(t) :
                              \A j \in Gainers(t) : t.post[j].amt <= t.post[g].amt})].owner

Orderings(s) ==
    {[i \in DOMAIN s |-> s[f[i]]] :
        f \in {g \in [DOMAIN s -> DOMAIN s] : \A i, j \in DOMAIN s : g[i] = g[j] => i = j}}

\* C31: the Buy of a transaction does not depend on the order of its
\* post-balance entries: with the entries in any other order the buy sweep
\* gives the same call (same buyer, amount and resulting balance) or, alike,
\* none.
C31_OrderIndependent ==
    (pollPc # "tx" /\ tx # NoTx /\ ~BurnMatched(tx)) =>
        \A p \in Orderings(tx.post) : BuySweep([tx EXCEPT !.post = p]) = calls

\* C32: a signature-page request that fails (429, RPC error, network
\* exception) changes neither the cursor lastSignature nor the dedup window
\* nor the notification queue, and until the next request is made the cursor
\* and the window stay as they are, so the next cycle asks again for
\* everything after the same cursor.
C32_Failed_Step ==
    /\ (pollPc = "fetch" /\ pollPc' = "idle" /\ lastOutcome' # "ok") =>
           UNCHANGED <<lastSignature, processedTxs, messageQueue>>
    /\ (pollPc = "idle" /\ lastOutcome # "ok") =>
           /\ UNCHANGED <<lastSignature, processedTxs>>
           /\ pollPc' = "fetch" =>
                  getSignaturesForAddress(head', lastSignature', limit)
                      = getSignaturesForAddress(head, lastSignature, limit)
C33_OneFetchPerRefresh ==
    \A c, d \in PriceCallers :
        c # d =>
            /\ ~(priceCall[c].pc = "fetch" /\ priceCall[d].pc = "fetch")
            /\ ~(/\ priceRet[c].kind = "fresh"
                 /\ priceRet[d].kind = "fresh"
                 /\ priceRet[c].cache = priceRet[d].cache
                 /\ priceRet[c].calledAt <= priceRet[d].at
                 /\ priceRet[d].calledAt <= priceRet[c].at)

\* ------------------------------------------------------------------------
\* The queue when every Telegram call returns and the 2000 ms timer fires
\* ------------------------------------------------------------------------
MaxQueued == 4       \* notifications the handlers enqueue

\* handleBurn or handleBuy reaches its enqueue(msg): burns are pinned, buys
\* are not
HandlerEnqueues(photo, pin) ==
    /\ Len(enqueued) < MaxQueued
    /\ LET sig == Len(enqueued) + 1
       IN /\ enqueue(<<QueuedMessage(sig, photo, pin)>>)
          /\ enqueued' = Append(enqueued, sig)
    /\ UNCHANGED <<head, lastSignature, processedTxs, pollPc, page, cur, tx, calls, pending,
                   price, obs, accepted, passed, completed, startHead,
                   cadenceVars, cacheVars, sideVars>>

QueueNext ==
    \/ \E m \in {<<"BURN_IMAGE_URL", TRUE>>, <<"ARB_IMAGE_URL", FALSE>>, <<"rank", FALSE>>} :
           HandlerEnqueues(m[1], m[2])
    \/ \E ok \in BOOLEAN : SendPhotoDone(ok)
    \/ \E ok \in BOOLEAN : PinPhotoDone(ok)
    \/ \E ok \in BOOLEAN : SendMessageDone(ok)
    \/ \E ok \in BOOLEAN : PinMessageDone(ok)
    \/ QueueTimer

SpecQueue == Init /\ [][QueueNext]_vars

SpecQueueFair ==
    /\ SpecQueue
    /\ WF_vars(\E ok \in BOOLEAN : SendPhotoDone(ok))
    /\ WF_vars(\E ok \in BOOLEAN : PinPhotoDone(ok))
    /\ WF_vars(\E ok \in BOOLEAN : SendMessageDone(ok))
    /\ WF_vars(\E ok \in BOOLEAN : PinMessageDone(ok))
    /\ WF_vars(QueueTimer)

\* C34: queue liveness.  When every send call returns, the n-th notification
\* enqueued is eventually shifted off the queue and given its delivery
\* attempt, whatever the outcomes of the deliveries before it; and a queue
\* that holds a message always has a delivery under way or its timer pending.
C34_QueueLiveness ==
    /\ [](messageQueue # <<>> => (isSending /\ sendPc # "idle"))
    /\ \A n \in 1..MaxQueued : (Len(enqueued) >= n) ~> (Len(attempted) >= n)

\* the third notification is on its text fallback while a fourth waits
C34_Witness ==
    /\ Len(attempted) = 3
    /\ messageQueue # <<>>
    /\ sendPc = "sendMessage"
    /\ att.photo = "failed"

\* C35: burns keep the timer's spacing.  After a cycle that passed the timer
\* check at time t has issued its liquidity removal, the next removal is
\* issued no earlier than t + interval, the interval being the one computed
\* in that cycle, also when a later step of that cycle threw.  (Stated for
\* an earlier removal that was confirmed and for the removals of cycles
\* whose timer check came after it.)
C35_Spacing_Step ==
    \A t \in Ticks :
        (/\ burnPc[t] = "pool" /\ burnPc'[t] = "removing"
         /\ lastRemoval.confirmed
         /\ burnLocal[t].now > lastRemoval.at) =>
            now \div 1000 >= lastRemoval.until
C35_BurnSpacing == [][C35_Spacing_Step]_vars

====
